---------------------------- MODULE Spec2Model ----------------------------
(***************************************************************************)
(* Model of src/cares_wrap.cc: the bridge between the c-ares resolver      *)
(* engine and the libuv event loop (ares_sockstate_cb, ares_poll_cb,       *)
(* ChannelWrap) and the life cycle of one request (QueryWrap).             *)
(*                                                                         *)
(* Everything runs on one loop thread.  pc says who is running: "loop" is  *)
(* the event loop between callbacks; the other values are a call into the  *)
(* engine (ares_query / ares_gethostbyaddr, ares_process_fd, ares_cancel,  *)
(* ares_destroy) during which the engine calls back into the bridge        *)
(* (ares_sockstate_cb, QueryWrap::Callback) before it returns.             *)
(***************************************************************************)
EXTENDS Integers, Sequences, FiniteSets, TLC

(* ------------------------------ bounds --------------------------------- *)
MaxSock    == 2     \* socket identifiers the engine may open
MaxTasks   == 2     \* node_ares_task objects allocated at the same time
MaxQueries == 2     \* QueryWrap objects alive at the same time
OtherChannels == 1  \* other channels of the process that hold the library
MaxThreads == 2     \* other loop threads that construct a channel
MaxAliases == 2     \* aliases in a host record the engine reports
MaxAddrs   == 1     \* addresses in a host record the engine reports
MaxBuf     == 2     \* bytes in a raw answer the engine reports
MaxRes     == 3     \* entries in the addrinfo list of one lookup

Socks   == 1..MaxSock
TaskIds == 1..MaxTasks
Queries == 1..MaxQueries
Threads == 1..MaxThreads

NULL == 0

(* Status codes, by name (ares.h, uv.h and line 90 of the source). *)
ARES_SUCCESS       == "ARES_SUCCESS"
ARES_ECONNREFUSED  == "ARES_ECONNREFUSED"
ARES_ETIMEOUT      == "ARES_ETIMEOUT"
ARES_EDESTRUCTION  == "ARES_EDESTRUCTION"
ARES_ECANCELLED    == "ARES_ECANCELLED"
ARES_EBADSTR       == "ARES_EBADSTR"
ARES_ENOMEM        == "ARES_ENOMEM"
DNS_ESETSRVPENDING == "DNS_ESETSRVPENDING"
UV_EINVAL          == "UV_EINVAL"
RET_ZERO           == "0"
RET_NONE           == "-"

(* Statuses the engine reports from ares_query / ares_process_fd. *)
EngineStatuses == {ARES_SUCCESS, ARES_ECONNREFUSED, ARES_ETIMEOUT}
AllStatuses    == EngineStatuses \cup {ARES_ECANCELLED, ARES_EDESTRUCTION}

(* The timeout a channel is constructed with (ChannelWrap::New, args[0]). *)
Timeouts == {250}
(* Channel timeouts on both sides of each limit StartTimer tests. *)
TimeoutInputs == {-1, 0, 1, 250, 1000, 1001}

VARIABLES
  (* ChannelWrap *)
  timer_handle_,        \* NULL, or 1: the uv_timer_t the channel owns
  timer_active,         \* uv_is_active(timer_handle_)
  timer_timeout,        \* timeout and repeat the timer was started with
  channel_,             \* "live", "null", or "dangling": it points at an
                        \* engine that was destroyed
  library_inited_,
  destructed,           \* ~ChannelWrap has run
  query_last_ok_,
  is_servers_default_,
  timeout_,
  active_query_count_,
  task_list_,           \* set of node_ares_task, a record [id, sock]
  (* libuv *)
  poll_watcher,         \* per task id: state and armed events of poll_watcher
  immediates,           \* queue of SetImmediate callbacks (query ids)
  (* the c-ares engine behind channel_ *)
  engine_socks,         \* sockets the engine holds open
  engine_queries,       \* queries whose callback the engine still owes
  servers,              \* the engine's server list
  handle_destroys,      \* ares_destroy calls made on the engine channel_
                        \* points at
  ares_initialized,     \* the library's process-wide reference count
  (* QueryWrap, one per query id *)
  wrap,                 \* life cycle position of the QueryWrap object
  kind,                 \* "query" (a one-type AresQuery wrap), "any"
                        \* (QueryAnyWrap) or "reverse" (GetHostByAddrWrap)
  callback_ptr_,        \* TRUE iff callback_ptr_ # nullptr
  cell,                 \* the heap cell made by MakeCallbackPointer
  cell_frees,           \* how many times the cell was deleted
  cell_uaf,             \* the cell was written through after its deletion
  response_data_,
  events,               \* per query: what happened to it, in order
  (* control *)
  pc,
  cur_q,                \* the query Query() is dispatching, or NULL
  crashed,              \* "no", or the CHECK that aborted the process
  poll_init_failed,     \* uv_poll_init_socket has failed at least once
  cleanup,              \* the Environment is being torn down
  last,                 \* the last bridge entry point that ran
  (* the process *)
  ares_library_mutex,   \* NULL, or the thread that holds the lock
  thread,               \* per other loop thread: where it is in the life
                        \* of its ChannelWrap, and that channel's
                        \* library_inited_
  local_ip,             \* the engine's local bind addresses
  mem,                  \* the heap cells of one answer: the engine's and
                        \* the copy Callback makes of them
  req_wrap              \* the GetAddrInfoReqWrap of one address lookup and
                        \* what AfterGetAddrInfo handed to oncomplete

libVars    == <<library_inited_, destructed, handle_destroys,
                ares_initialized>>
chanVars   == <<timer_handle_, timer_active, timer_timeout, channel_,
                query_last_ok_, is_servers_default_, timeout_,
                active_query_count_, task_list_, libVars>>
timerVars  == <<timer_handle_, timer_active, timer_timeout>>
uvVars     == <<poll_watcher, immediates>>
engineVars == <<engine_socks, engine_queries, servers>>
tokenVars  == <<callback_ptr_, cell, cell_frees, cell_uaf>>
wrapVars   == <<wrap, kind, callback_ptr_, cell, cell_frees, cell_uaf,
                response_data_, events>>
ctlVars    == <<pc, cur_q, crashed, poll_init_failed, cleanup, last>>
sideVars   == <<ares_library_mutex, thread, local_ip, mem, req_wrap>>
vars       == <<chanVars, uvVars, engineVars, wrapVars, ctlVars, sideVars>>

(* ------------------------------ servers -------------------------------- *)
AF_INET  == "AF_INET"
AF_INET6 == "AF_INET6"

Server(fam, addr, port) ==
  [family |-> fam, addr |-> addr, tcp_port |-> port, udp_port |-> port]

Loopback == Server(AF_INET, "127.0.0.1", 0)

(* Server lists ares_init_options can come up with: the built-in fallback, *)
(* or what the system configuration says.                                  *)
InitServers == { <<Loopback>>,
                 <<Server(AF_INET, "8.8.8.8", 0)>>,
                 <<Loopback, Server(AF_INET6, "::1", 0)>> }

(* ------------------------------ records -------------------------------- *)
NullTask == [id |-> NULL, sock |-> NULL]
NoWatcher == [state |-> "free", read |-> FALSE, write |-> FALSE]
NoResponse == [status |-> RET_NONE, is_host |-> FALSE,
               has_buf |-> FALSE, has_host |-> FALSE]
NoMem == [phase |-> "none", is_host |-> FALSE, heap |-> <<>>,
          engine_top |-> 0, answer |-> NULL, copy |-> NULL,
          at_callback |-> NULL, delivered |-> NULL]
NoLocal == [ip4 |-> "any", ip6 |-> "any"]

(* No address lookup was requested. *)
NoReq == [phase |-> "none", verbatim |-> FALSE, res |-> <<>>,
          argv0 |-> "none", argv1_null |-> TRUE, argv1 |-> <<>>]
NoThread == [pc |-> "none", library_inited_ |-> FALSE]
NoLast == [op |-> "init", ret |-> RET_NONE, q |-> NULL, sock |-> NULL,
           read |-> FALSE, write |-> FALSE, hit |-> FALSE,
           passes |-> <<>>, records |-> <<>>]

Entry(op) == [NoLast EXCEPT !.op = op]

Running == crashed = "no"

(* --------------------------- the task set ------------------------------ *)
(* TaskEqual: two set elements are the same key iff their sock is equal.   *)
TaskEqual_pointer(a, b) == a.id = b.id
TaskEqual(a, b) == a.sock = b.sock

(* task_list()->find(&lookup_task): the element equal to the key, or end() *)
Find(list, lookup) ==
  IF \E t \in list : TaskEqual(t, lookup)
    THEN CHOOSE t \in list : TaskEqual(t, lookup)
    ELSE NullTask

(* unordered_set::insert: no effect when an equal key is already present   *)
Insert(list, t) ==
  IF \E u \in list : TaskEqual(u, t) THEN list ELSE list \cup {t}

(* the stack object ares_sockstate_cb searches with; it is no heap task *)
LookupTask(sock) == [id |-> -1, sock |-> sock]

FreeTaskIds == {i \in TaskIds : poll_watcher[i].state = "free"}

(* ares_task_create: a new task, or nullptr when uv_poll_init_socket fails *)
ares_task_create(sock, init_ok) ==
  IF init_ok
    THEN [id |-> CHOOSE i \in FreeTaskIds : \A j \in FreeTaskIds : i <= j,
          sock |-> sock]
    ELSE NullTask

(* ------------------------------ the timer ------------------------------ *)
(* The value StartTimer arms the timer with. *)
ArmedTimeout_noclamp(t) == t

ArmedTimeout(t) ==
  LET t1 == IF t = 0 THEN 1 ELSE t
  IN  IF t1 < 0 \/ t1 > 1000 THEN 1000 ELSE t1

(* ChannelWrap::StartTimer, as the new <<handle, active, timeout>> *)
StartTimer_skip == <<timer_handle_, timer_active, timer_timeout>>

StartTimer ==
  IF timer_handle_ # NULL /\ timer_active
    THEN <<timer_handle_, timer_active, timer_timeout>>
    ELSE <<1, TRUE, ArmedTimeout(timeout_)>>

(* ChannelWrap::CloseTimer applied to a timer state *)
CloseTimer_keep(tm) == tm

CloseTimer(tm) ==
  IF tm[1] = NULL THEN tm ELSE <<NULL, FALSE, 0>>

TimerNow == <<timer_handle_, timer_active, timer_timeout>>

SetTimer(tm) ==
  /\ timer_handle_' = tm[1]
  /\ timer_active'  = tm[2]
  /\ timer_timeout' = tm[3]


(* ------------------- ares_sockstate_cb and the poll bridge ------------- *)
(* CHECK(task && "When an ares socket is closed we should have a handle    *)
(* for it"): the process state after the check                             *)
CheckTask_off(found) == "no"
CheckTask(found) == IF found THEN "no" ELSE "CHECK(task)"

(* env()->CloseHandle(&task->poll_watcher, ares_poll_close_cb): the handle *)
(* is closing until the loop runs ares_poll_close_cb.                      *)
CloseHandle_sync(w) == NoWatcher
CloseHandle(w) == [w EXCEPT !.state = "closing"]

Armed_readalways(read, write) ==
  [state |-> "active", read |-> TRUE, write |-> write]

Armed(read, write) == [state |-> "active", read |-> read, write |-> write]

(* ares_sockstate_cb(data, sock, read, write).  init_ok is the outcome of  *)
(* uv_poll_init_socket inside ares_task_create, used only for a new socket *)
ares_sockstate_cb(sock, read, write, init_ok) ==
  LET task    == Find(task_list_, LookupTask(sock))
      found   == task # NullTask
      created == ares_task_create(sock, init_ok)
      erased  == task_list_ \ {task}
  IN
  /\ last' = [Entry("ares_sockstate_cb") EXCEPT !.sock = sock,
                !.read = read, !.write = write, !.hit = found]
  /\ IF read \/ write
       THEN IF ~found
              THEN /\ SetTimer(StartTimer)
                   /\ IF created = NullTask
                        THEN /\ poll_init_failed' = TRUE
                             /\ UNCHANGED <<task_list_, poll_watcher>>
                        ELSE /\ task_list_' = Insert(task_list_, created)
                             /\ poll_watcher' =
                                  [poll_watcher EXCEPT ![created.id] =
                                                         Armed(read, write)]
                             /\ UNCHANGED poll_init_failed
                   /\ UNCHANGED crashed
              ELSE /\ poll_watcher' =
                        [poll_watcher EXCEPT ![task.id] = Armed(read, write)]
                   /\ UNCHANGED <<task_list_, timerVars, poll_init_failed,
                                  crashed>>
       ELSE IF ~found
              THEN /\ crashed' = CheckTask(found)
                   /\ UNCHANGED <<task_list_, poll_watcher, timerVars,
                                  poll_init_failed>>
              ELSE /\ task_list_' = erased
                   /\ poll_watcher' =
                        [poll_watcher EXCEPT ![task.id] = CloseHandle(@)]
                   /\ SetTimer(IF erased = {} THEN CloseTimer(TimerNow)
                                              ELSE TimerNow)
                   /\ UNCHANGED <<poll_init_failed, crashed>>

(* ares_poll_close_cb: the close of a poll handle completes, delete task *)
ares_poll_close_cb(id) ==
  /\ Running /\ pc = "loop"
  /\ poll_watcher[id].state = "closing"
  /\ poll_watcher' = [poll_watcher EXCEPT ![id] = NoWatcher]
  /\ last' = Entry("ares_poll_close_cb")
  /\ UNCHANGED <<chanVars, immediates, engineVars, wrapVars, pc, cur_q,
                 crashed, poll_init_failed, cleanup, sideVars>>

(* The sockets ares_poll_cb hands to ares_process_fd: whether task->sock   *)
(* is passed as the readable and as the writable socket (ARES_SOCKET_BAD   *)
(* otherwise).                                                             *)
ProcessFdArgs_suppress(status_ok, ev_read, ev_write) ==
  [read |-> status_ok /\ ev_read, write |-> status_ok /\ ev_write]

ProcessFdArgs(status_ok, ev_read, ev_write) ==
  IF ~status_ok THEN [read |-> TRUE, write |-> TRUE]
                ELSE [read |-> ev_read, write |-> ev_write]

(* ares_poll_cb(watcher, status, events) for the watcher of a listed task. *)
(* last.read / last.write: whether task->sock is handed to ares_process_fd *)
(* as the readable / writable socket.                                      *)
ares_poll_cb(task, status_ok, ev_read, ev_write) ==
  /\ Running /\ pc = "loop"
  /\ task \in task_list_
  /\ poll_watcher[task.id].state = "active"
  /\ \/ ~status_ok /\ ev_read = FALSE /\ ev_write = FALSE
     \/ /\ status_ok /\ (ev_read \/ ev_write)
        /\ ev_read => poll_watcher[task.id].read
        /\ ev_write => poll_watcher[task.id].write
  /\ last' = [Entry("ares_poll_cb") EXCEPT !.sock = task.sock,
                !.read = ProcessFdArgs(status_ok, ev_read, ev_write).read,
                !.write = ProcessFdArgs(status_ok, ev_read, ev_write).write,
                !.hit = (timer_handle_ # NULL)]
  /\ IF timer_handle_ = NULL
       THEN /\ crashed' = "uv_timer_again(nullptr)"
            /\ UNCHANGED pc
       ELSE /\ pc' = "ares_process"
            /\ UNCHANGED crashed
  /\ UNCHANGED <<chanVars, uvVars, engineVars, wrapVars, cur_q,
                 poll_init_failed, cleanup, sideVars>>

(* ChannelWrap::AresTimeout(handle): the repeating timer fires *)
AresTimeout ==
  /\ Running /\ pc = "loop"
  /\ timer_handle_ # NULL /\ timer_active
  /\ last' = [Entry("AresTimeout") EXCEPT !.hit = (task_list_ # {})]
  /\ IF task_list_ = {}
       THEN /\ crashed' = "CHECK_EQ(false, task_list()->empty())"
            /\ UNCHANGED pc
       ELSE /\ pc' = "ares_process"
            /\ UNCHANGED crashed
  /\ UNCHANGED <<chanVars, uvVars, engineVars, wrapVars, cur_q,
                 poll_init_failed, cleanup, sideVars>>

(* --------------------------- QueryWrap --------------------------------- *)
(* A query id names the storage of one QueryWrap; Query() reuses the id of *)
(* an object that was deleted.                                             *)
(* wrap[q]: "none"      no Query() call has used this id yet               *)
(*          "created"   constructed, no token made yet                     *)
(*          "pending"   released to the engine, no response yet            *)
(*          "captured"  Callback stored a response, AfterResponse is queued*)
(*          "released"  AfterResponse ran and the object was deleted       *)
(*          "destroyed" deleted while pending (environment teardown)       *)
(*          "rejected"  Send failed, deleted by Query()                    *)
(* cell[q]: "unalloc", "wrap" (holds the wrap pointer), "null" (holds     *)
(*          nullptr), "freed"                                              *)

(* ChannelWrap::ModifyActivityQueryCount: the new count, and its CHECK_GE  *)
ModifyActivityQueryCount_inc(n, count) == IF count > 0 THEN n + count ELSE n
ModifyActivityQueryCount(n, count) == n + count

CountCheck(n) ==
  IF n >= 0 THEN "no" ELSE "CHECK_GE(active_query_count_, 0)"

(* QueryWrap::MakeCallbackPointer of the newly constructed wrap q: a new   *)
(* heap cell that holds the wrap pointer                                   *)
MakeCallbackPointer(q) ==
  /\ cell' = [cell EXCEPT ![q] = "wrap"]
  /\ callback_ptr_' = [callback_ptr_ EXCEPT ![q] = TRUE]
  /\ cell_frees' = [cell_frees EXCEPT ![q] = 0]
  /\ cell_uaf' = [cell_uaf EXCEPT ![q] = FALSE]

(* QueryWrap::QueryWrap: callback_ptr_ starts as nullptr, no cell exists *)
Constructor_token(q) == MakeCallbackPointer(q)

Constructor(q) ==
  /\ cell' = [cell EXCEPT ![q] = "unalloc"]
  /\ callback_ptr_' = [callback_ptr_ EXCEPT ![q] = FALSE]
  /\ cell_frees' = [cell_frees EXCEPT ![q] = 0]
  /\ cell_uaf' = [cell_uaf EXCEPT ![q] = FALSE]

(* QueryWrap::~QueryWrap: tell Callback() the object is gone *)
Destructor(q) ==
  /\ IF callback_ptr_[q]
       THEN IF cell[q] = "freed"
              THEN /\ cell_uaf' = [cell_uaf EXCEPT ![q] = TRUE]
                   /\ UNCHANGED cell
              ELSE /\ cell' = [cell EXCEPT ![q] = "null"]
                   /\ UNCHANGED cell_uaf
       ELSE UNCHANGED <<cell, cell_uaf>>
  /\ UNCHANGED <<callback_ptr_, cell_frees>>

(* QueryWrap::FromCallbackPointer(arg), arg being the cell of query q:     *)
(* the unique_ptr deletes the cell; w is the wrap returned, or NULL.       *)
FromCallbackPointer_unchecked(q, w) ==
  /\ cell' = [cell EXCEPT ![q] = "freed"]
  /\ cell_frees' = [cell_frees EXCEPT ![q] = @ + 1]
  /\ w = q
  /\ callback_ptr_' = [callback_ptr_ EXCEPT ![w] = FALSE]
  /\ UNCHANGED cell_uaf

FromCallbackPointer_keepref(q, w) ==
  /\ cell' = [cell EXCEPT ![q] = "freed"]
  /\ cell_frees' = [cell_frees EXCEPT ![q] = @ + 1]
  /\ w = (IF cell[q] = "wrap" THEN q ELSE NULL)
  /\ UNCHANGED <<callback_ptr_, cell_uaf>>

FromCallbackPointer(q, w) ==
  /\ cell' = [cell EXCEPT ![q] = "freed"]
  /\ cell_frees' = [cell_frees EXCEPT ![q] = @ + 1]
  /\ w = (IF cell[q] = "wrap" THEN q ELSE NULL)
  /\ callback_ptr_' = IF w # NULL
                        THEN [callback_ptr_ EXCEPT ![w] = FALSE]
                        ELSE callback_ptr_
  /\ UNCHANGED cell_uaf

(* What the two Callback overloads store in response_data_ *)
Capture_ok(k, status) ==
  [status   |-> ARES_SUCCESS,
   is_host  |-> (k = "reverse"),
   has_buf  |-> (k # "reverse"),
   has_host |-> (k = "reverse")]

Capture_always(k, status) ==
  [status   |-> status,
   is_host  |-> (k = "reverse"),
   has_buf  |-> (k # "reverse"),
   has_host |-> (k = "reverse")]

Capture(k, status) ==
  [status   |-> status,
   is_host  |-> (k = "reverse"),
   has_buf  |-> (k # "reverse" /\ status = ARES_SUCCESS),
   has_host |-> (k = "reverse" /\ status = ARES_SUCCESS)]

(* QueryWrap::QueueResponseCallback(status) of wrap w; ev is w's log so far *)
QueueResponseCallback_nodec(w, status, ev) ==
  /\ immediates' = Append(immediates, w)
  /\ query_last_ok_' = (status # ARES_ECONNREFUSED)
  /\ events' = [events EXCEPT ![w] = ev \o <<"schedule", "last_ok">>]
  /\ UNCHANGED <<active_query_count_, crashed>>

QueueResponseCallback_sync(w, status, ev) ==
  LET n == ModifyActivityQueryCount(active_query_count_, -1) IN
  /\ immediates' = Append(immediates, w)
  /\ query_last_ok_' = (status # ARES_ECONNREFUSED)
  /\ active_query_count_' = n
  /\ crashed' = CountCheck(n)
  /\ events' = [events EXCEPT
                   ![w] = ev \o <<"hook", "schedule", "last_ok", "dec">>]

QueueResponseCallback_onlysuccess(w, status, ev) ==
  LET n == ModifyActivityQueryCount(active_query_count_, -1) IN
  /\ immediates' = Append(immediates, w)
  /\ query_last_ok_' = (status = ARES_SUCCESS)
  /\ active_query_count_' = n
  /\ crashed' = CountCheck(n)
  /\ events' = [events EXCEPT ![w] = ev \o <<"schedule", "last_ok", "dec">>]

QueueResponseCallback(w, status, ev) ==
  LET n == ModifyActivityQueryCount(active_query_count_, -1) IN
  /\ immediates' = Append(immediates, w)
  /\ query_last_ok_' = (status # ARES_ECONNREFUSED)
  /\ active_query_count_' = n
  /\ crashed' = CountCheck(n)
  /\ events' = [events EXCEPT ![w] = ev \o <<"schedule", "last_ok", "dec">>]

(* QueryWrap::Callback(arg, status, ...), both overloads *)
Callback(q, status) ==
  \E w \in {NULL} \cup Queries :
    /\ FromCallbackPointer(q, w)
    /\ IF w = NULL
         THEN UNCHANGED <<wrap, response_data_, immediates, query_last_ok_,
                          active_query_count_, events, crashed>>
         ELSE /\ response_data_' =
                   [response_data_ EXCEPT ![w] = Capture(kind[w], status)]
              /\ wrap' = [wrap EXCEPT ![w] = "captured"]
              /\ QueueResponseCallback(w, status,
                                       Append(events[w], "capture"))

(* The value AfterResponse hands to oncomplete: ParseError(status), or the *)
(* outcome of Parse (a decoded value, or ParseError of the decode status)  *)
AfterResponse(q, parse_status) ==
  IF response_data_[q].status # ARES_SUCCESS
    THEN response_data_[q].status
    ELSE IF parse_status = ARES_SUCCESS THEN "value" ELSE parse_status

ParseStatuses == {ARES_SUCCESS, "ARES_EBADRESP"}

(* QueryAnyWrap::Parse: the decode passes over the answer, in code order.  *)
(* passes[i] is the status the i-th pass returns.  The result is what the  *)
(* completion hook is called with: "value" (CallOnComplete), a status      *)
(* (ParseError), or RET_NONE when Parse returns without calling the hook.  *)
PassNames == <<"A", "AAAA", "MX", "NS", "TXT", "SRV", "PTR", "NAPTR", "SOA",
               "CAA">>

RECURSIVE ParseFrom(_, _)
ParseFrom(passes, i) ==
  IF i > Len(PassNames) THEN "value"
  ELSE IF PassNames[i] = "PTR" THEN ParseFrom(passes, i + 1)
  ELSE IF passes[i] \in {ARES_SUCCESS, "ARES_ENODATA"}
         THEN ParseFrom(passes, i + 1)
  ELSE IF PassNames[i] = "SRV" THEN RET_NONE
  ELSE passes[i]

QueryAnyWrap_Parse(passes) == ParseFrom(passes, 1)

(* A decode pass stores its records at offset ret->Length() of the list.   *)
AppendRecord_front(ret, rec) == <<rec>> \o ret

AppendRecord(ret, rec) == Append(ret, rec)

(* The list Parse hands to CallOnComplete: each pass that decodes records  *)
(* appends them, tagged with its type, to the one list ret.                *)
RECURSIVE RecordsFrom(_, _, _)
RecordsFrom(passes, i, ret) ==
  IF i > Len(PassNames) THEN ret
  ELSE RecordsFrom(passes, i + 1,
                   IF passes[i] = ARES_SUCCESS
                     THEN AppendRecord(ret, PassNames[i])
                     ELSE ret)

QueryAnyWrap_Records(passes) == RecordsFrom(passes, 1, <<>>)

(* Answers for QueryAnyWrap::Parse: every pass succeeds, or one pass has   *)
(* no data or fails.                                                       *)
AnyInputs ==
  { [i \in 1..Len(PassNames) |-> ARES_SUCCESS] } \cup
  { [i \in 1..Len(PassNames) |-> IF i = p THEN st ELSE ARES_SUCCESS] :
      p \in 1..Len(PassNames), st \in {"ARES_ENODATA", "ARES_EBADRESP"} }

(* The SetImmediate callback queued by QueueResponseCallback: AfterResponse *)
(* then Detach, which deletes the QueryWrap.                                *)
RunImmediate(parse_status) ==
  /\ Running /\ pc = "loop"
  /\ immediates # <<>>
  /\ LET q == Head(immediates) IN
       /\ immediates' = Tail(immediates)
       /\ events' = [events EXCEPT ![q] = @ \o <<"hook", "release">>]
       /\ Destructor(q)
       /\ wrap' = [wrap EXCEPT ![q] = "released"]
       /\ response_data_' = [response_data_ EXCEPT ![q] = NoResponse]
       /\ kind' = [kind EXCEPT ![q] = "query"]
       /\ last' = [Entry("AfterResponse") EXCEPT !.q = q,
                     !.ret = AfterResponse(q, parse_status)]
  /\ kind[Head(immediates)] # "any"
  /\ parse_status # ARES_SUCCESS =>
       /\ response_data_[Head(immediates)].status = ARES_SUCCESS
       /\ kind[Head(immediates)] # "reverse"
  /\ UNCHANGED <<chanVars, poll_watcher, engineVars, pc, cur_q,
                 crashed, poll_init_failed, cleanup, sideVars>>

(* The same SetImmediate callback for a QueryAnyWrap, whose Parse runs the *)
(* decode passes; passes is what they return for the captured answer.      *)
RunImmediateAny(passes) ==
  LET q == Head(immediates)
      arg == IF response_data_[q].status # ARES_SUCCESS
               THEN response_data_[q].status
               ELSE QueryAnyWrap_Parse(passes)
  IN
  /\ Running /\ pc = "loop"
  /\ immediates # <<>>
  /\ kind[q] = "any"
  /\ response_data_[q].status # ARES_SUCCESS
        => passes = [i \in 1..Len(PassNames) |-> ARES_SUCCESS]
  /\ immediates' = Tail(immediates)
  /\ events' = [events EXCEPT ![q] =
                   @ \o (IF arg = RET_NONE THEN <<"release">>
                                           ELSE <<"hook", "release">>)]
  /\ Destructor(q)
  /\ wrap' = [wrap EXCEPT ![q] = "released"]
  /\ response_data_' = [response_data_ EXCEPT ![q] = NoResponse]
  /\ kind' = [kind EXCEPT ![q] = "query"]
  /\ last' = [Entry("AfterResponse") EXCEPT !.q = q, !.ret = arg,
                !.passes = IF response_data_[q].status = ARES_SUCCESS
                             THEN passes ELSE <<>>,
                !.records = IF arg = "value"
                              THEN QueryAnyWrap_Records(passes) ELSE <<>>]
  /\ UNCHANGED <<chanVars, poll_watcher, engineVars, pc, cur_q,
                 crashed, poll_init_failed, cleanup, sideVars>>

(* Environment teardown deletes a QueryWrap the engine still has a token   *)
(* of: the wrap was released by Query() and nothing else owns it.  From    *)
(* then on no JavaScript runs.                                             *)
DestroyWrap(q) ==
  /\ Running /\ pc = "loop"
  /\ wrap[q] = "pending"
  /\ Destructor(q)
  /\ wrap' = [wrap EXCEPT ![q] = "destroyed"]
  /\ kind' = [kind EXCEPT ![q] = "query"]
  /\ events' = [events EXCEPT ![q] = Append(@, "release")]
  /\ cleanup' = TRUE
  /\ last' = [Entry("~QueryWrap") EXCEPT !.q = q]
  /\ UNCHANGED <<chanVars, uvVars, engineVars, response_data_,
                 pc, cur_q, crashed, poll_init_failed, sideVars>>

(* ------------------- EnsureServers, Setup, Query ----------------------- *)
(* The test at lines 560-563 for the only entry of the list *)
IsFallback_anyport(list) ==
  /\ Len(list) = 1
  /\ list[1].family = AF_INET

IsFallback(list) ==
  /\ Len(list) = 1
  /\ list[1].family = AF_INET
  /\ list[1].addr = "127.0.0.1"
  /\ list[1].tcp_port = 0
  /\ list[1].udp_port = 0

(* ChannelWrap::EnsureServers, as the branch it takes *)
EnsureServers_nocheck ==
  IF servers = <<>> THEN "no_servers"
  ELSE IF Len(servers) > 1 THEN "not_default"
  ELSE IF ~IsFallback(servers) THEN "not_default"
  ELSE "recreate"

EnsureServers ==
  IF query_last_ok_ \/ ~is_servers_default_ THEN "skip"
  ELSE IF servers = <<>> THEN "no_servers"
  ELSE IF Len(servers) > 1 THEN "not_default"
  ELSE IF ~IsFallback(servers) THEN "not_default"
  ELSE "recreate"

(* ares_library_init increases and ares_library_cleanup decreases the     *)
(* library's reference counter.                                            *)
LibraryInit(n) == n + 1
LibraryCleanup(n) == n - 1

(* What ares_library_init and ares_init_options may return.  A failing     *)
(* ares_init_options stores NULL in *channelptr when it is out of memory   *)
(* and leaves *channelptr as it was otherwise.                             *)
SetupStatuses == {ARES_SUCCESS, ARES_ENOMEM, "ARES_EFILE"}

(* ChannelWrap::Setup as a function of library_inited_, the reference      *)
(* count, the value of channel_ before the call and the statuses of        *)
(* ares_library_init (r_lib) and ares_init_options (r_opts).               *)
SetupOutcome(inited, refs, chan, r_lib, r_opts) ==
  IF ~inited /\ r_lib # ARES_SUCCESS
    THEN [inited |-> inited, refs |-> refs, chan |-> chan, ok |-> FALSE]
    ELSE LET n == IF ~inited THEN LibraryInit(refs) ELSE refs IN
         IF r_opts # ARES_SUCCESS
           THEN [inited |-> inited, refs |-> LibraryCleanup(n),
                 chan |-> IF r_opts = ARES_ENOMEM THEN "null" ELSE chan,
                 ok |-> FALSE]
           ELSE [inited |-> TRUE, refs |-> n, chan |-> "live", ok |-> TRUE]

(* ChannelWrap::Setup called by EnsureServers, after ares_destroy(channel_) *)
(* and CloseTimer: on success a fresh engine with the server list          *)
(* new_servers, on failure channel_ is NULL or keeps pointing at the       *)
(* destroyed engine.                                                       *)
Setup(r_opts, new_servers) ==
  LET o == SetupOutcome(library_inited_, ares_initialized, "dangling",
                        ARES_SUCCESS, r_opts)
  IN
  /\ channel_' = o.chan
  /\ library_inited_' = o.inited
  /\ ares_initialized' = o.refs
  /\ servers' = IF o.ok THEN new_servers ELSE servers
  /\ local_ip' = IF o.ok THEN NoLocal ELSE local_ip
  /\ handle_destroys' = IF o.chan = "dangling" THEN handle_destroys ELSE 0

(* Ids whose QueryWrap object does not exist and whose token the engine    *)
(* does not hold                                                           *)
Deleted == {"none", "rejected", "released"}

(* Query<Wrap>(args): dispatch of query q.  k is the kind of Wrap, name_ok *)
(* says whether a reverse lookup's string parses as an IP address.         *)
QueryStart(q, k, name_ok) ==
  LET n1 == ModifyActivityQueryCount(active_query_count_, 1)
      n2 == ModifyActivityQueryCount(n1, -1)
      es == IF k # "reverse" THEN EnsureServers ELSE "skip"
  IN
  /\ Running /\ pc = "loop" /\ ~cleanup
  /\ wrap[q] \in Deleted /\ \A p \in Queries : p < q => wrap[p] \notin Deleted
  /\ k # "reverse" => name_ok
  /\ IF k = "reverse" /\ ~name_ok
       THEN (* Send returns UV_EINVAL; the unique_ptr deletes the wrap *)
            /\ active_query_count_' = n2
            /\ crashed' = CountCheck(n2)
            /\ wrap' = [wrap EXCEPT ![q] = "rejected"]
            /\ kind' = [kind EXCEPT ![q] = "query"]
            /\ events' = [events EXCEPT ![q] = <<"inc", "dec", "release">>]
            /\ Constructor(q)
            /\ last' = [Entry("Query") EXCEPT !.q = q, !.ret = UV_EINVAL]
            /\ UNCHANGED <<is_servers_default_, engine_queries, pc, cur_q,
                           handle_destroys>>
       ELSE /\ active_query_count_' = n1
            /\ kind' = [kind EXCEPT ![q] = k]
            /\ events' = [events EXCEPT ![q] = <<"inc">>]
            /\ cur_q' = q
            /\ last' = [Entry("Query:Send") EXCEPT !.q = q, !.ret = es,
                          !.hit = (k # "reverse")]
            /\ is_servers_default_' =
                 IF es = "not_default" THEN FALSE ELSE is_servers_default_
            /\ IF es = "recreate"
                 THEN (* ares_destroy(channel_) runs first *)
                      /\ pc' = "ares_destroy"
                      /\ handle_destroys' = handle_destroys + 1
                      /\ wrap' = [wrap EXCEPT ![q] = "created"]
                      /\ Constructor(q)
                      /\ UNCHANGED engine_queries
                 ELSE (* ares_query / ares_gethostbyaddr is entered *)
                      /\ pc' = "ares_send"
                      /\ UNCHANGED handle_destroys
                      /\ wrap' = [wrap EXCEPT ![q] = "pending"]
                      /\ MakeCallbackPointer(q)
                      /\ engine_queries' = engine_queries \cup {q}
            /\ UNCHANGED crashed
  /\ UNCHANGED <<timerVars, channel_, query_last_ok_, timeout_, task_list_,
                 library_inited_, destructed, ares_initialized,
                 uvVars, engine_socks, servers, response_data_,
                 poll_init_failed, cleanup, sideVars>>

(* EnsureServers after ares_destroy has returned: CloseTimer, Setup, then  *)
(* AresQuery goes on to ares_query(channel_, ...) with a new token,        *)
(* whatever Setup did: with a NULL channel_ the call ends the process,     *)
(* with a channel_ that points at the destroyed engine it is undefined     *)
(* (see DanglingChannelCrash for the other outcome).                       *)
EnsureServersRecreate(r_opts, new_servers) ==
  /\ Running /\ pc = "ares_destroy"
  /\ engine_queries = {} /\ engine_socks = {}
  /\ SetTimer(CloseTimer(TimerNow))
  /\ Setup(r_opts, new_servers)
  /\ pc' = "ares_send"
  /\ wrap' = [wrap EXCEPT ![cur_q] = "pending"]
  /\ MakeCallbackPointer(cur_q)
  /\ IF r_opts = ARES_ENOMEM
       THEN /\ crashed' = "ares_query(nullptr)"
            /\ UNCHANGED engine_queries
       ELSE /\ engine_queries' = {cur_q}
            /\ UNCHANGED crashed
  /\ last' = [Entry("EnsureServers:Setup") EXCEPT !.q = cur_q,
                !.ret = r_opts, !.hit = (r_opts = ARES_SUCCESS)]
  /\ UNCHANGED <<query_last_ok_, is_servers_default_, timeout_,
                 active_query_count_, task_list_, uvVars, engine_socks,
                 kind, response_data_, events, cur_q, destructed,
                 poll_init_failed, cleanup, ares_library_mutex, thread,
                 mem, req_wrap>>

(* ares_query / ares_gethostbyaddr returns; Send returns 0 and Query()     *)
(* releases the wrap.                                                      *)
QueryReturn ==
  /\ Running /\ pc = "ares_send"
  /\ pc' = "loop"
  /\ cur_q' = NULL
  /\ last' = [Entry("Query") EXCEPT !.q = cur_q, !.ret = RET_ZERO]
  /\ UNCHANGED <<chanVars, uvVars, engineVars, wrapVars, crashed,
                 poll_init_failed, cleanup, sideVars>>

(* ares_process_fd returns to ares_poll_cb / AresTimeout *)
ProcessReturn ==
  /\ Running /\ pc = "ares_process"
  /\ pc' = "loop"
  /\ last' = Entry("ares_process_fd:return")
  /\ UNCHANGED <<chanVars, uvVars, engineVars, wrapVars, cur_q, crashed,
                 poll_init_failed, cleanup, sideVars>>

(* Cancel(args): ares_cancel(channel) is entered *)
Cancel ==
  /\ Running /\ pc = "loop" /\ ~cleanup
  /\ pc' = "ares_cancel"
  /\ last' = Entry("Cancel")
  /\ UNCHANGED <<chanVars, uvVars, engineVars, wrapVars, cur_q, crashed,
                 poll_init_failed, cleanup, sideVars>>

(* ares_cancel returns: every query was called back, every socket closed *)
CancelReturn ==
  /\ Running /\ pc = "ares_cancel"
  /\ engine_queries = {} /\ engine_socks = {}
  /\ pc' = "loop"
  /\ last' = Entry("Cancel:return")
  /\ UNCHANGED <<chanVars, uvVars, engineVars, wrapVars, cur_q, crashed,
                 poll_init_failed, cleanup, sideVars>>

(* ------------------------------ SetServers ----------------------------- *)
(* uv_inet_pton(af, ip, dst) succeeds *)
InetPtonOk(af, ip) ==
  \/ af = AF_INET  /\ ip \in {"127.0.0.1", "8.8.8.8"}
  \/ af = AF_INET6 /\ ip \in {"::1"}

Family(fam) == IF fam = 4 THEN AF_INET ELSE AF_INET6

Elm(fam, ip, port) == [fam |-> fam, ip |-> ip, port |-> port]

(* Arrays handed to setServers: [family, ip, port] triples *)
ServerInputs == { <<>>,
                  <<Elm(4, "8.8.8.8", 53)>>,
                  <<Elm(4, "8.8.8.8", 53), Elm(6, "bad", 53)>>,
                  <<Elm(4, "bad", 53), Elm(6, "::1", 53)>> }

(* The loop over the array: err of the first entry uv_inet_pton rejects *)
ParseErr_first(arr) ==
  Len(arr) > 0 /\ ~InetPtonOk(Family(arr[1].fam), arr[1].ip)

ParseErr(arr) ==
  \E i \in 1..Len(arr) : ~InetPtonOk(Family(arr[i].fam), arr[i].ip)

ParsedServers(arr) ==
  [i \in 1..Len(arr) |-> Server(Family(arr[i].fam), arr[i].ip, arr[i].port)]

(* SetServers(args).  engine_ok: ares_set_servers* returns ARES_SUCCESS.   *)
(* The end of SetServers for a nonempty list: the flag after the call,     *)
(* given the status err and the flag before.                               *)
set_is_servers_default_always(err, flag) == FALSE

set_is_servers_default(err, flag) ==
  IF err = ARES_SUCCESS THEN FALSE ELSE flag

SetServers_unguarded(arr, engine_ok) ==
  LET rv == IF engine_ok THEN ARES_SUCCESS ELSE ARES_ENOMEM
      err == IF ParseErr(arr) THEN ARES_EBADSTR ELSE rv
  IN
  /\ Running /\ pc = "loop" /\ ~cleanup
  /\ ParseErr(arr) => engine_ok
  /\ IF Len(arr) = 0
            THEN /\ last' = [Entry("SetServers") EXCEPT !.ret = rv]
                 /\ servers' = IF engine_ok THEN <<>> ELSE servers
                 /\ UNCHANGED is_servers_default_
            ELSE /\ last' = [Entry("SetServers") EXCEPT !.ret = err]
                 /\ servers' = IF err = ARES_SUCCESS THEN ParsedServers(arr)
                                                     ELSE servers
                 /\ is_servers_default_' =
                      IF err = ARES_SUCCESS THEN FALSE ELSE is_servers_default_
  /\ UNCHANGED <<timerVars, channel_, query_last_ok_, timeout_, libVars,
                 active_query_count_, task_list_, uvVars, engine_socks,
                 engine_queries, wrapVars, pc, cur_q, crashed,
                 poll_init_failed, cleanup, sideVars>>

SetServers(arr, engine_ok) ==
  LET rv == IF engine_ok THEN ARES_SUCCESS ELSE ARES_ENOMEM
      err == IF ParseErr(arr) THEN ARES_EBADSTR ELSE rv
  IN
  /\ Running /\ pc = "loop" /\ ~cleanup
  /\ (active_query_count_ # 0 \/ ParseErr(arr)) => engine_ok
  /\ IF active_query_count_ # 0
       THEN /\ last' = [Entry("SetServers") EXCEPT !.ret = DNS_ESETSRVPENDING]
            /\ UNCHANGED <<servers, is_servers_default_>>
       ELSE IF Len(arr) = 0
            THEN /\ last' = [Entry("SetServers") EXCEPT !.ret = rv]
                 /\ servers' = IF engine_ok THEN <<>> ELSE servers
                 /\ UNCHANGED is_servers_default_
            ELSE /\ last' = [Entry("SetServers") EXCEPT !.ret = err]
                 /\ servers' = IF err = ARES_SUCCESS THEN ParsedServers(arr)
                                                     ELSE servers
                 /\ is_servers_default_' =
                      set_is_servers_default(err, is_servers_default_)
  /\ UNCHANGED <<timerVars, channel_, query_last_ok_, timeout_, libVars,
                 active_query_count_, task_list_, uvVars, engine_socks,
                 engine_queries, wrapVars, pc, cur_q, crashed,
                 poll_init_failed, cleanup, sideVars>>

(* ---------------------------- SetLocalAddress -------------------------- *)
(* Strings handed to setLocalAddress; the second may be undefined. *)
LocalInputs == {"127.0.0.1", "8.8.8.8", "::1", "bad"}
Undefined == "undefined"
ERR_INVALID_ARG_VALUE == "ERR_INVALID_ARG_VALUE"

(* type0 / the type of the second address: 4, 6, or 0 when uv_inet_pton    *)
(* rejects the string for both families.                                   *)
AddrType(ip) ==
  IF InetPtonOk(AF_INET, ip) THEN 4
  ELSE IF InetPtonOk(AF_INET6, ip) THEN 6
  ELSE 0

(* ares_set_local_ip4 / ares_set_local_ip6 *)
SetLocalIp(l, type, ip) ==
  IF type = 4 THEN [l EXCEPT !.ip4 = ip] ELSE [l EXCEPT !.ip6 = ip]

(* The local addresses SetLocalAddress(ip0, ip1) leaves in the engine and  *)
(* whether it throws.                                                      *)
LocalAddressOutcome(l, ip0, ip1) ==
  LET type0 == AddrType(ip0)
      type1 == AddrType(ip1)
      l0    == SetLocalIp(l, type0, ip0)
  IN
  IF type0 = 0 THEN [local |-> l, throws |-> TRUE]
  ELSE IF ip1 = Undefined
    THEN [local |-> SetLocalIp(l0, IF type0 = 4 THEN 6 ELSE 4, "any"),
          throws |-> FALSE]
  ELSE IF type1 = 0 \/ type1 = type0 THEN [local |-> l0, throws |-> TRUE]
  ELSE [local |-> SetLocalIp(l0, type1, ip1), throws |-> FALSE]

SetLocalAddress(ip0, ip1) ==
  LET o == LocalAddressOutcome(local_ip, ip0, ip1) IN
  /\ Running /\ pc = "loop" /\ ~cleanup
  /\ local_ip' = o.local
  /\ last' = [Entry("SetLocalAddress") EXCEPT
                !.ret = IF o.throws THEN ERR_INVALID_ARG_VALUE ELSE RET_NONE]
  /\ UNCHANGED <<chanVars, uvVars, engineVars, wrapVars, pc, cur_q, crashed,
                 poll_init_failed, cleanup, ares_library_mutex, thread,
                 mem, req_wrap>>

(* --------------------- the engine, while it has control ---------------- *)
InEngine == pc \in {"ares_send", "ares_process", "ares_cancel", "ares_destroy",
                    "~ChannelWrap"}

(* The status the engine reports a query with, by the call it is inside *)
StatusesIn(p) ==
  IF p = "ares_cancel" THEN {ARES_ECANCELLED}
  ELSE IF p \in {"ares_destroy", "~ChannelWrap"} THEN {ARES_EDESTRUCTION}
  ELSE EngineStatuses

(* The engine invokes the completion callback of query q, once *)
EngineCallback(q, status) ==
  /\ Running /\ InEngine
  /\ q \in engine_queries
  /\ status \in StatusesIn(pc)
  /\ engine_queries' = engine_queries \ {q}
  /\ Callback(q, status)
  /\ last' = [Entry("Callback") EXCEPT !.q = q, !.ret = status,
                !.hit = (wrap[q] = "pending")]
  /\ UNCHANGED <<timerVars, channel_, is_servers_default_, timeout_, libVars,
                 task_list_, poll_watcher, engine_socks, servers, kind,
                 pc, cur_q, poll_init_failed, cleanup, sideVars>>

(* The engine opens socket s, or changes what it waits for on it *)
EngineSockState(s, read, write, init_ok) ==
  /\ Running /\ pc \in {"ares_send", "ares_process"}
  /\ read \/ write
  /\ s \notin engine_socks => engine_queries # {}
  /\ Find(task_list_, LookupTask(s)) # NullTask => init_ok
  /\ (Find(task_list_, LookupTask(s)) = NullTask /\ init_ok)
        => FreeTaskIds # {}
  /\ engine_socks' = engine_socks \cup {s}
  /\ ares_sockstate_cb(s, read, write, init_ok)
  /\ UNCHANGED <<channel_, query_last_ok_, is_servers_default_, timeout_, libVars,
                 active_query_count_, immediates, engine_queries, servers,
                 wrapVars, pc, cur_q, cleanup, sideVars>>

(* The engine closes socket s.  ares_cancel and ares_destroy close the     *)
(* sockets after they have called back every query.                        *)
EngineSockClose(s) ==
  /\ Running /\ InEngine
  /\ s \in engine_socks
  /\ pc \in {"ares_cancel", "ares_destroy", "~ChannelWrap"}
       => engine_queries = {}
  /\ engine_socks' = engine_socks \ {s}
  /\ ares_sockstate_cb(s, FALSE, FALSE, TRUE)
  /\ UNCHANGED <<channel_, query_last_ok_, is_servers_default_, timeout_, libVars,
                 active_query_count_, immediates, engine_queries, servers,
                 wrapVars, pc, cur_q, cleanup, sideVars>>

(* An engine call made with the handle of a destroyed engine is undefined: *)
(* it may go on with the stale memory, or end the process here.            *)
DanglingChannelCrash ==
  /\ Running /\ InEngine
  /\ channel_ = "dangling"
  /\ crashed' = "use of destroyed ares_channel"
  /\ last' = Entry("ares:undefined")
  /\ UNCHANGED <<chanVars, uvVars, engineVars, wrapVars, pc, cur_q,
                 poll_init_failed, cleanup, sideVars>>

(* BaseObjectPtr<ChannelWrap> channel_ of QueryWrap: the ChannelWrap is    *)
(* not deleted while a QueryWrap object exists.                            *)
NoWrapHoldsChannel_rawptr == TRUE

NoWrapHoldsChannel ==
  \A q \in Queries : wrap[q] \in Deleted \cup {"destroyed"}

(* ChannelWrap::~ChannelWrap: ares_destroy(channel_) is entered.  The      *)
(* object is deleted when no QueryWrap holds a reference to it: by the     *)
(* garbage collector or when the environment is torn down.  ares_destroy   *)
(* of a NULL channel does nothing.                                         *)
ChannelDestructor ==
  /\ Running /\ pc = "loop" /\ ~destructed
  /\ NoWrapHoldsChannel
  /\ pc' = "~ChannelWrap"
  /\ handle_destroys' = IF channel_ = "null" THEN handle_destroys
                                             ELSE handle_destroys + 1
  /\ last' = Entry("~ChannelWrap")
  /\ UNCHANGED <<timerVars, channel_, query_last_ok_, is_servers_default_,
                 timeout_, active_query_count_, task_list_, library_inited_,
                 destructed, ares_initialized, uvVars, engine_socks,
                 engine_queries, servers, wrapVars, cur_q, crashed,
                 poll_init_failed, cleanup, sideVars>>

(* ~ChannelWrap after ares_destroy has returned: the library cleanup when  *)
(* library_inited_ is set, then CloseTimer.                                *)
ChannelDestructorReturn ==
  /\ Running /\ pc = "~ChannelWrap"
  /\ engine_queries = {} /\ engine_socks = {}
  /\ ares_initialized' = IF library_inited_
                            THEN LibraryCleanup(ares_initialized)
                            ELSE ares_initialized
  /\ SetTimer(CloseTimer(TimerNow))
  /\ destructed' = TRUE
  /\ pc' = "loop"
  /\ last' = Entry("~ChannelWrap:return")
  /\ UNCHANGED <<channel_, query_last_ok_, is_servers_default_, timeout_,
                 active_query_count_, task_list_, library_inited_,
                 handle_destroys, uvVars, engineVars, wrapVars, cur_q,
                 crashed, poll_init_failed, cleanup, sideVars>>

(* ------------- channels on other loop threads and the library ---------- *)
(* Mutex::ScopedLock lock(ares_library_mutex): the constructor returns     *)
(* once no thread holds the mutex.                                         *)
ScopedLock_nowait(m) == TRUE
ScopedLock(m) == m = NULL

(* What a step of thread t leaves alone: the channel of this loop thread. *)
ThreadFrame ==
  UNCHANGED <<timerVars, channel_, query_last_ok_, is_servers_default_,
              timeout_, active_query_count_, task_list_, library_inited_,
              destructed, handle_destroys, uvVars, engineVars, wrapVars,
              ctlVars, local_ip, mem, req_wrap>>

ThreadAt(t, p) == thread' = [thread EXCEPT ![t].pc = p]

(* new ChannelWrap on thread t: the constructor calls Setup. *)
ThreadNew(t) ==
  /\ thread[t].pc = "none"
  /\ ThreadAt(t, "Setup")
  /\ UNCHANGED <<ares_initialized, ares_library_mutex>>
  /\ ThreadFrame

(* Setup, lines 470-471: the lock is taken and ares_library_init entered   *)
(* when library_inited_ is not set; otherwise ares_init_options is next.   *)
ThreadSetup(t) ==
  /\ thread[t].pc = "Setup"
  /\ IF thread[t].library_inited_
       THEN /\ ThreadAt(t, "ares_init_options")
            /\ UNCHANGED ares_library_mutex
       ELSE /\ ScopedLock(ares_library_mutex)
            /\ ares_library_mutex' = t
            /\ ThreadAt(t, "ares_library_init")
  /\ UNCHANGED ares_initialized
  /\ ThreadFrame

(* ares_library_init returns r; the lock goes out of scope.  A failure     *)
(* throws: the channel stays without an engine.                            *)
ThreadLibraryInitReturn(t, r) ==
  /\ thread[t].pc = "ares_library_init"
  /\ ares_initialized' = IF r = ARES_SUCCESS THEN LibraryInit(ares_initialized)
                                              ELSE ares_initialized
  /\ ares_library_mutex' = NULL
  /\ ThreadAt(t, IF r = ARES_SUCCESS THEN "ares_init_options" ELSE "failed")
  /\ ThreadFrame

(* ares_init_options returns r, lines 482-490. *)
ThreadInitOptionsReturn(t, r) ==
  /\ thread[t].pc = "ares_init_options"
  /\ thread' = [thread EXCEPT ![t] =
         IF r = ARES_SUCCESS THEN [pc |-> "live", library_inited_ |-> TRUE]
                             ELSE [@ EXCEPT !.pc = "Setup:failed"]]
  /\ UNCHANGED <<ares_initialized, ares_library_mutex>>
  /\ ThreadFrame

(* Lines 485-486 and 519-521: the lock is taken and ares_library_cleanup   *)
(* entered.                                                                *)
ThreadLockCleanup(t) ==
  /\ thread[t].pc \in {"Setup:failed", "~ChannelWrap"}
  /\ ScopedLock(ares_library_mutex)
  /\ ares_library_mutex' = t
  /\ ThreadAt(t, IF thread[t].pc = "Setup:failed"
                   THEN "Setup:ares_library_cleanup"
                   ELSE "~ChannelWrap:ares_library_cleanup")
  /\ UNCHANGED ares_initialized
  /\ ThreadFrame

(* ares_library_cleanup returns; the lock goes out of scope.  Setup then   *)
(* throws; the destructor ends and the object is gone.                     *)
ThreadCleanupReturn(t) ==
  /\ thread[t].pc \in {"Setup:ares_library_cleanup",
                       "~ChannelWrap:ares_library_cleanup"}
  /\ ares_initialized' = LibraryCleanup(ares_initialized)
  /\ ares_library_mutex' = NULL
  /\ thread' = [thread EXCEPT ![t] =
         IF @.pc = "Setup:ares_library_cleanup"
           THEN [@ EXCEPT !.pc = "failed"]
           ELSE [pc |-> "gone", library_inited_ |-> FALSE]]
  /\ ThreadFrame

(* EnsureServers on the thread's channel: ares_destroy, then Setup. *)
ThreadRecreate(t) ==
  /\ thread[t].pc = "live"
  /\ ThreadAt(t, "Setup")
  /\ UNCHANGED <<ares_initialized, ares_library_mutex>>
  /\ ThreadFrame

(* ~ChannelWrap on thread t, lines 516-518. *)
ThreadDestructor(t) ==
  /\ thread[t].pc \in {"live", "failed"}
  /\ ThreadAt(t, IF thread[t].library_inited_ THEN "~ChannelWrap"
                                               ELSE "gone")
  /\ UNCHANGED <<ares_initialized, ares_library_mutex>>
  /\ ThreadFrame

(* ----------------- the engine's answer and its copy -------------------- *)
(* A heap is a sequence of cells; the address of a cell is its index.      *)
Cell(bytes) == [live |-> TRUE, bytes |-> bytes]
FreedCell == [live |-> FALSE, bytes |-> <<>>]

SeqsUpTo(S, n) == UNION {[1..k -> S] : k \in 0..n}

(* sizeof(struct in_addr), sizeof(struct in6_addr) *)
AddrLength(fam) == IF fam = AF_INET THEN 4 ELSE 16

HostNames == {<<"a">>, <<"b", "c">>}
AliasNames == {<<"x">>, <<"y", "z">>}
AddrBytes(fam) ==
  IF fam = AF_INET THEN {<<127, 0, 0, 1>>, <<8, 8, 8, 8>>}
                   ELSE {[i \in 1..16 |-> IF i = 16 THEN 1 ELSE 0]}

(* The struct hostent the engine hands to Callback, with its strings and   *)
(* addresses in the engine's cells.                                        *)
EngineHost(name, aliases, addrs, fam) ==
  [heap |-> <<Cell(name)>> \o [i \in 1..Len(aliases) |-> Cell(aliases[i])]
                          \o [i \in 1..Len(addrs) |-> Cell(addrs[i])],
   host |-> [h_name |-> 1,
             h_aliases |-> [i \in 1..Len(aliases) |-> 1 + i],
             h_addr_list |-> [i \in 1..Len(addrs) |->
                                1 + Len(aliases) + i],
             h_addrtype |-> fam,
             h_length |-> AddrLength(fam)]]

(* node::Malloc<unsigned char>(n) and memcpy of n bytes of the cell at src *)
MallocCopy(h, src, n) == Append(h, Cell(SubSeq(h[src].bytes, 1, n)))

(* cares_wrap_hostent_cpy(dest, src) on heap h: the heap with the new      *)
(* cells, and dest.                                                        *)
cares_wrap_hostent_cpy_shared(h, src) ==
  LET h1 == MallocCopy(h, src.h_name, Len(h[src.h_name].bytes))
      h3 == h1 \o [i \in 1..Len(src.h_addr_list) |->
                     Cell(SubSeq(h1[src.h_addr_list[i]].bytes, 1,
                                 src.h_length))]
  IN [heap |-> h3,
      host |-> [h_name |-> Len(h1),
                h_aliases |-> src.h_aliases,
                h_addr_list |-> [i \in 1..Len(src.h_addr_list) |->
                                   Len(h1) + i],
                h_addrtype |-> src.h_addrtype,
                h_length |-> src.h_length]]

cares_wrap_hostent_cpy(h, src) ==
  LET h1 == MallocCopy(h, src.h_name, Len(h[src.h_name].bytes))
      h2 == h1 \o [i \in 1..Len(src.h_aliases) |->
                     Cell(h1[src.h_aliases[i]].bytes)]
      h3 == h2 \o [i \in 1..Len(src.h_addr_list) |->
                     Cell(SubSeq(h2[src.h_addr_list[i]].bytes, 1,
                                 src.h_length))]
  IN [heap |-> h3,
      host |-> [h_name |-> Len(h1),
                h_aliases |-> [i \in 1..Len(src.h_aliases) |-> Len(h1) + i],
                h_addr_list |-> [i \in 1..Len(src.h_addr_list) |->
                                   Len(h2) + i],
                h_addrtype |-> src.h_addrtype,
                h_length |-> src.h_length]]

(* What a struct hostent says, read through its pointers. *)
HostValue(h, host) ==
  [name |-> h[host.h_name],
   aliases |-> [i \in 1..Len(host.h_aliases) |-> h[host.h_aliases[i]]],
   addrs |-> [i \in 1..Len(host.h_addr_list) |-> h[host.h_addr_list[i]]],
   addrtype |-> host.h_addrtype,
   length |-> host.h_length]

(* What a raw answer (buf, len) says. *)
BufValue(h, b) == [bytes |-> h[b.buf], len |-> b.len]

(* HostentToNames: the aliases of the host record. *)
HostentToNames(h, host) ==
  [i \in 1..Len(host.h_aliases) |-> h[host.h_aliases[i]]]

(* The answers the engine calls Callback with on success. *)
Answers ==
  { [phase |-> "callback", is_host |-> TRUE, heap |-> e.heap,
     engine_top |-> Len(e.heap), answer |-> e.host, copy |-> NULL,
     at_callback |-> NULL, delivered |-> NULL] :
      e \in UNION { { EngineHost(n, al, ad, fam) :
                        n \in HostNames, al \in SeqsUpTo(AliasNames, MaxAliases),
                        ad \in SeqsUpTo(AddrBytes(fam), MaxAddrs) } :
                    fam \in {AF_INET, AF_INET6} } }
  \cup
  { [phase |-> "callback", is_host |-> FALSE, heap |-> <<Cell(b)>>,
     engine_top |-> 1, answer |-> [buf |-> 1, len |-> Len(b)],
     copy |-> NULL, at_callback |-> NULL, delivered |-> NULL] :
      b \in SeqsUpTo({0, 255}, MaxBuf) }

(* What a step on the answer leaves alone: the channel and its queries. *)
MemFrame ==
  UNCHANGED <<chanVars, uvVars, engineVars, wrapVars, ctlVars,
              ares_library_mutex, thread, local_ip, req_wrap>>

(* Callback with ARES_SUCCESS, either overload: the copy is made and       *)
(* stored in response_data_.                                               *)
CallbackCopy ==
  /\ mem.phase = "callback"
  /\ IF mem.is_host
       THEN LET c == cares_wrap_hostent_cpy(mem.heap, mem.answer) IN
            mem' = [mem EXCEPT !.phase = "captured", !.heap = c.heap,
                      !.copy = c.host,
                      !.at_callback = HostValue(mem.heap, mem.answer)]
       ELSE mem' = [mem EXCEPT !.phase = "captured",
                      !.heap = MallocCopy(mem.heap, mem.answer.buf,
                                          mem.answer.len),
                      !.copy = [buf |-> Len(mem.heap) + 1,
                                len |-> mem.answer.len],
                      !.at_callback = BufValue(mem.heap, mem.answer)]
  /\ MemFrame

(* After Callback has returned the engine frees or reuses a cell it owns. *)
EngineInvalidate(a, reuse) ==
  /\ mem.phase = "captured"
  /\ a \in 1..mem.engine_top
  /\ mem.heap[a].live
  /\ mem' = [mem EXCEPT !.heap[a] = IF reuse THEN Cell(<<>>) ELSE FreedCell]
  /\ MemFrame

(* AfterResponse: Parse is handed the copy. *)
Deliver ==
  /\ mem.phase = "captured"
  /\ mem' = [mem EXCEPT !.phase = "delivered",
                !.delivered = IF mem.is_host
                                THEN HostentToNames(mem.heap, mem.copy)
                                ELSE BufValue(mem.heap, mem.copy)]
  /\ MemFrame

(* ~ResponseData: safe_free_hostent, or the MallocedBuffer frees its data. *)
ReleaseCopy ==
  /\ mem.phase = "delivered"
  /\ mem' = [mem EXCEPT !.phase = "released",
                !.heap = [a \in 1..Len(mem.heap) |->
                            IF a > mem.engine_top THEN FreedCell
                                                  ELSE mem.heap[a]]]
  /\ MemFrame

(* JavaScript can call into the channel: the object exists and its         *)
(* constructor or a later call has not thrown out of Setup.                *)
Usable == ~destructed /\ channel_ = "live"

(* ------------------------------ the system ----------------------------- *)
(* The state after ChannelWrap::ChannelWrap, for a timeout in T, an engine *)
(* that starts with a server list in S and a Setup in which                *)
(* ares_library_init returns a status in LibStatuses and ares_init_options *)
(* one in OptStatuses.  InitWith: after a successful Setup.                *)
InitMain(T, S, LibStatuses, OptStatuses) ==
  /\ timer_handle_ = NULL /\ timer_active = FALSE /\ timer_timeout = 0
  /\ \E r_lib \in LibStatuses, r_opts \in OptStatuses :
       LET o == SetupOutcome(FALSE, OtherChannels, "null", r_lib, r_opts) IN
       /\ channel_ = o.chan
       /\ library_inited_ = o.inited
       /\ ares_initialized = o.refs
  /\ handle_destroys = 0
  /\ destructed = FALSE
  /\ query_last_ok_ = TRUE
  /\ is_servers_default_ = TRUE
  /\ timeout_ \in T
  /\ active_query_count_ = 0
  /\ task_list_ = {}
  /\ poll_watcher = [i \in TaskIds |-> NoWatcher]
  /\ immediates = <<>>
  /\ engine_socks = {} /\ engine_queries = {}
  /\ servers \in S
  /\ wrap = [q \in Queries |-> "none"]
  /\ kind = [q \in Queries |-> "query"]
  /\ callback_ptr_ = [q \in Queries |-> FALSE]
  /\ cell = [q \in Queries |-> "unalloc"]
  /\ cell_frees = [q \in Queries |-> 0]
  /\ cell_uaf = [q \in Queries |-> FALSE]
  /\ response_data_ = [q \in Queries |-> NoResponse]
  /\ events = [q \in Queries |-> <<>>]
  /\ pc = "loop" /\ cur_q = NULL /\ crashed = "no"
  /\ poll_init_failed = FALSE
  /\ cleanup = FALSE
  /\ last = NoLast
  /\ ares_library_mutex = NULL
  /\ thread = [t \in Threads |-> NoThread]
  /\ local_ip = NoLocal
  /\ req_wrap = NoReq

InitAfter(T, S, LibStatuses, OptStatuses) ==
  /\ InitMain(T, S, LibStatuses, OptStatuses)
  /\ mem = NoMem

InitWith(T, S) == InitAfter(T, S, {ARES_SUCCESS}, {ARES_SUCCESS})

(* Steps every specification below has: returns from the engine, handle    *)
(* close completions, the timer.                                           *)
LoopSteps ==
  \/ QueryReturn
  \/ ProcessReturn
  \/ CancelReturn
  \/ Cancel
  \/ AresTimeout
  \/ \E i \in TaskIds : ares_poll_close_cb(i)

(* The socket bridge: every socket, every interest set, failing poll       *)
(* registrations, poll errors; one plain AresQuery lookup at a time, whose *)
(* answer always decodes; the engine starts with the fallback server.      *)
InitBridge == InitWith(Timeouts, {<<Loopback>>})

NextBridge ==
  \/ LoopSteps
  \/ QueryStart(1, "query", TRUE)
  \/ EnsureServersRecreate(ARES_SUCCESS, <<Loopback>>)
  \/ \E q \in Queries, st \in {ARES_SUCCESS, ARES_ECONNREFUSED,
                               ARES_ECANCELLED, ARES_EDESTRUCTION} :
       EngineCallback(q, st)
  \/ \E s \in Socks, r \in BOOLEAN, w \in BOOLEAN, ok \in BOOLEAN :
       EngineSockState(s, r, w, ok)
  \/ \E s \in Socks : EngineSockClose(s)
  \/ \E t \in task_list_, ok \in BOOLEAN, r \in BOOLEAN, w \in BOOLEAN :
       ares_poll_cb(t, ok, r, w)
  \/ RunImmediate(ARES_SUCCESS)

SpecBridge == InitBridge /\ [][NextBridge]_vars

(* The request life cycle: both kinds of query, rejected dispatches, every *)
(* completion status, answers that fail to decode, teardown of pending     *)
(* wraps; the engine starts with the fallback server and uses one socket   *)
(* whose poll registration succeeds.                                       *)
InitQuery == InitWith(Timeouts, {<<Loopback>>})

NextQuery ==
  \/ LoopSteps
  \/ \E q \in Queries, k \in {"query", "reverse"}, ok \in BOOLEAN :
       QueryStart(q, k, ok)
  \/ EnsureServersRecreate(ARES_SUCCESS, <<Loopback>>)
  \/ \E q \in Queries, st \in AllStatuses : EngineCallback(q, st)
  \/ EngineSockState(1, TRUE, FALSE, TRUE)
  \/ EngineSockClose(1)
  \/ \E t \in task_list_ : ares_poll_cb(t, TRUE, TRUE, FALSE)
  \/ \E ps \in ParseStatuses : RunImmediate(ps)
  \/ \E q \in Queries : DestroyWrap(q)

SpecQuery == InitQuery /\ [][NextQuery]_vars

(* The server list: every list the engine can start with, SetServers with  *)
(* every input, refused and cancelled queries, recreation of the engine;   *)
(* queries are plain AresQuery lookups whose answers always decode.        *)
InitServerList == InitWith(Timeouts, InitServers)

NextServers ==
  \/ LoopSteps
  \/ \E q \in Queries : QueryStart(q, "query", TRUE)
  \/ EnsureServersRecreate(ARES_SUCCESS, <<Loopback>>)
  \/ \E q \in Queries, st \in {ARES_SUCCESS, ARES_ECONNREFUSED,
                               ARES_ECANCELLED, ARES_EDESTRUCTION} :
       EngineCallback(q, st)
  \/ EngineSockState(1, TRUE, FALSE, TRUE)
  \/ EngineSockClose(1)
  \/ \E t \in task_list_ : ares_poll_cb(t, TRUE, TRUE, FALSE)
  \/ RunImmediate(ARES_SUCCESS)
  \/ \E arr \in ServerInputs, ok \in BOOLEAN : SetServers(arr, ok)

SpecServers == InitServerList /\ [][NextServers]_vars

(* Delivery of decoded answers: one-type and resolve-any queries, every    *)
(* completion status, every outcome of the decode passes.                  *)
InitAny == InitWith(Timeouts, {<<Loopback>>})

NextAny ==
  \/ LoopSteps
  \/ \E q \in Queries, k \in {"query", "any"} : QueryStart(q, k, TRUE)
  \/ EnsureServersRecreate(ARES_SUCCESS, <<Loopback>>)
  \/ \E q \in Queries, st \in AllStatuses : EngineCallback(q, st)
  \/ EngineSockState(1, TRUE, FALSE, TRUE)
  \/ EngineSockClose(1)
  \/ \E t \in task_list_ : ares_poll_cb(t, TRUE, TRUE, FALSE)
  \/ \E ps \in ParseStatuses : RunImmediate(ps)
  \/ \E passes \in AnyInputs : RunImmediateAny(passes)

SpecAny == InitAny /\ [][NextAny]_vars

(* The life of a channel: construction with every outcome of Setup, one    *)
(* plain query at a time on one socket, recreation of the engine with      *)
(* every outcome of Setup, teardown of the environment, destruction.  The  *)
(* caller makes no further call on a channel whose Setup has thrown.       *)
InitChannel == InitAfter(Timeouts, {<<Loopback>>}, SetupStatuses,
                         SetupStatuses)

NextChannel ==
  \/ QueryReturn
  \/ ProcessReturn
  \/ CancelReturn
  \/ Usable /\ Cancel
  \/ AresTimeout
  \/ \E i \in TaskIds : ares_poll_close_cb(i)
  \/ Usable /\ QueryStart(1, "query", TRUE)
  \/ \E r \in SetupStatuses : EnsureServersRecreate(r, <<Loopback>>)
  \/ \E q \in Queries, st \in {ARES_SUCCESS, ARES_ECONNREFUSED,
                               ARES_ECANCELLED, ARES_EDESTRUCTION} :
       EngineCallback(q, st)
  \/ EngineSockState(1, TRUE, FALSE, TRUE)
  \/ EngineSockClose(1)
  \/ \E t \in task_list_ : ares_poll_cb(t, TRUE, TRUE, FALSE)
  \/ RunImmediate(ARES_SUCCESS)
  \/ \E q \in Queries : DestroyWrap(q)
  \/ DanglingChannelCrash
  \/ ChannelDestructor
  \/ ChannelDestructorReturn

SpecChannel == InitChannel /\ [][NextChannel]_vars

(* Channels constructed, recreated and destructed on other loop threads    *)
(* while this thread's channel exists: each thread constructs one.         *)
InitLibrary == InitWith(Timeouts, {<<Loopback>>})

NextLibrary ==
  \E t \in Threads :
    \/ ThreadNew(t)
    \/ ThreadSetup(t)
    \/ \E r \in {ARES_SUCCESS, ARES_ENOMEM} : ThreadLibraryInitReturn(t, r)
    \/ \E r \in SetupStatuses : ThreadInitOptionsReturn(t, r)
    \/ ThreadLockCleanup(t)
    \/ ThreadCleanupReturn(t)
    \/ ThreadRecreate(t)
    \/ ThreadDestructor(t)

SpecLibrary == InitLibrary /\ [][NextLibrary]_vars

(* One successful answer: captured, invalidated by the engine, delivered,  *)
(* released.                                                               *)
InitCopy ==
  /\ InitMain(Timeouts, {<<Loopback>>}, {ARES_SUCCESS}, {ARES_SUCCESS})
  /\ mem \in Answers

NextCopy ==
  \/ CallbackCopy
  \/ \E a \in 1..(1 + MaxAliases + MaxAddrs), reuse \in BOOLEAN :
       EngineInvalidate(a, reuse)
  \/ Deliver
  \/ ReleaseCopy

SpecCopy == InitCopy /\ [][NextCopy]_vars

(* Configuration of an idle channel: its servers and local addresses. *)
(* Queries the engine may answer inside the dispatching call or later; the *)
(* loop runs its immediate queue on every iteration and every engine call  *)
(* returns.                                                                *)
InitDispatch == InitWith(Timeouts, {<<Loopback>>})

NextDispatch ==
  \/ QueryReturn
  \/ ProcessReturn
  \/ AresTimeout
  \/ \E i \in TaskIds : ares_poll_close_cb(i)
  \/ \E q \in Queries : QueryStart(q, "query", TRUE)
  \/ \E q \in Queries, st \in {ARES_SUCCESS, ARES_ETIMEOUT} :
       EngineCallback(q, st)
  \/ EngineSockState(1, TRUE, FALSE, TRUE)
  \/ EngineSockClose(1)
  \/ \E t \in task_list_ : ares_poll_cb(t, TRUE, TRUE, FALSE)
  \/ RunImmediate(ARES_SUCCESS)

SpecDispatch ==
  /\ InitDispatch /\ [][NextDispatch]_vars
  /\ WF_vars(QueryReturn) /\ WF_vars(ProcessReturn)
  /\ SF_vars(RunImmediate(ARES_SUCCESS))

(* One query on one socket of a channel constructed with any timeout. *)
InitTimer == InitWith(TimeoutInputs, {<<Loopback>>})

NextTimer ==
  \/ LoopSteps
  \/ QueryStart(1, "query", TRUE)
  \/ EngineCallback(1, ARES_SUCCESS)
  \/ EngineSockState(1, TRUE, FALSE, TRUE)
  \/ EngineSockClose(1)
  \/ \E t \in task_list_ : ares_poll_cb(t, TRUE, TRUE, FALSE)
  \/ RunImmediate(ARES_SUCCESS)

SpecTimer == InitTimer /\ [][NextTimer]_vars

(* ------------------- the address lookup (getaddrinfo) ------------------ *)

UV_EAI_NODATA == "UV_EAI_NODATA"
UV_EAI_FAIL   == "UV_EAI_FAIL"

(* What one addrinfo entry can be: an IPv4 or IPv6 address, an address     *)
(* uv_inet_ntop cannot format, an entry of another family.                 *)
AddrInfoKinds ==
  { [ai_family |-> AF_INET,  ntop_ok |-> TRUE],
    [ai_family |-> AF_INET6, ntop_ok |-> TRUE],
    [ai_family |-> AF_INET,  ntop_ok |-> FALSE],
    [ai_family |-> "AF_OTHER", ntop_ok |-> TRUE] }

(* The lists uv_getaddrinfo reports: entry i carries address i. *)
AddrInfoLists ==
  UNION { { [i \in 1..n |-> [ai_family |-> f[i].ai_family,
                              ntop_ok   |-> f[i].ntop_ok,
                              ai_addr   |-> i]] :
              f \in [1..n -> AddrInfoKinds] } : n \in 0..MaxRes }

(* uv_inet_ntop of an entry's address: the text of that address. *)
uv_inet_ntop(p) == [family |-> p.ai_family, text |-> p.ai_addr]

(* The lambda add(want_ipv4, want_ipv6) of AfterGetAddrInfo, run from      *)
(* entry i of res on the array results.                                    *)
RECURSIVE add(_, _, _, _, _)
add(want_ipv4, want_ipv6, res, i, results) ==
  IF i > Len(res) THEN results
  ELSE LET p == res[i]
           wanted == \/ want_ipv4 /\ p.ai_family = AF_INET
                     \/ want_ipv6 /\ p.ai_family = AF_INET6
       IN add(want_ipv4, want_ipv6, res, i + 1,
              IF wanted /\ p.ntop_ok
                THEN Append(results, uv_inet_ntop(p))
                ELSE results)

(* The array AfterGetAddrInfo fills for status 0. *)
AddrInfoResults_onepass(verbatim, res) == add(TRUE, TRUE, res, 1, <<>>)

AddrInfoResults(verbatim, res) ==
  LET first == add(TRUE, verbatim, res, 1, <<>>)
  IN  IF verbatim = FALSE THEN add(FALSE, TRUE, res, 1, first) ELSE first

(* GetAddrInfo(req, hostname, family, flags, verbatim): the request is     *)
(* dispatched to uv_getaddrinfo, or the dispatch fails and the wrap is     *)
(* deleted.                                                                *)
GetAddrInfo(verbatim, dispatch_ok) ==
  /\ Running /\ pc = "loop"
  /\ req_wrap.phase # "pending"
  /\ req_wrap' = IF dispatch_ok
                   THEN [NoReq EXCEPT !.phase = "pending",
                                      !.verbatim = verbatim]
                   ELSE NoReq
  /\ UNCHANGED <<chanVars, uvVars, engineVars, wrapVars, ctlVars,
                 ares_library_mutex, thread, local_ip, mem>>

(* AfterGetAddrInfo(req, status, res); status is "0" or an error, and res  *)
(* is empty when it is an error.                                           *)
AfterGetAddrInfo(status, res) ==
  LET results == AddrInfoResults(req_wrap.verbatim, res)
      n == Len(results)
  IN
  /\ Running /\ pc = "loop"
  /\ req_wrap.phase = "pending"
  /\ status # RET_ZERO => res = <<>>
  /\ req_wrap' =
       [req_wrap EXCEPT
          !.phase = "done",
          !.res = res,
          !.argv0 = IF status = RET_ZERO /\ n = 0 THEN UV_EAI_NODATA
                                                  ELSE status,
          !.argv1_null = (status # RET_ZERO),
          !.argv1 = IF status = RET_ZERO THEN results ELSE <<>>]
  /\ UNCHANGED <<chanVars, uvVars, engineVars, wrapVars, ctlVars,
                 ares_library_mutex, thread, local_ip, mem>>

InitLookup == InitWith(Timeouts, {<<Loopback>>})

NextLookup ==
  \/ \E verbatim \in BOOLEAN, ok \in BOOLEAN : GetAddrInfo(verbatim, ok)
  \/ \E res \in AddrInfoLists : AfterGetAddrInfo(RET_ZERO, res)
  \/ AfterGetAddrInfo(UV_EAI_FAIL, <<>>)

SpecLookup == InitLookup /\ [][NextLookup]_vars

InitConfig == InitWith(Timeouts, InitServers)

NextConfig ==
  \/ \E ip0 \in LocalInputs, ip1 \in LocalInputs \cup {Undefined} :
       SetLocalAddress(ip0, ip1)
  \/ \E arr \in ServerInputs, ok \in BOOLEAN : SetServers(arr, ok)

SpecConfig == InitConfig /\ [][NextConfig]_vars

(* ============================ the claims ================================ *)
Count(seq, x) == Cardinality({i \in DOMAIN seq : seq[i] = x})

Before(seq, a, b) ==
  \A i \in DOMAIN seq, j \in DOMAIN seq : (seq[i] = a /\ seq[j] = b) => i < j

TimerRunning == timer_handle_ # NULL /\ timer_active

BridgeChecks == {"CHECK(task)", "CHECK_EQ(false, task_list()->empty())"}

(* C1: in every reachable state the registry holds at most one task per    *)
(* socket identifier, also after a notify with read or write set for a     *)
(* socket that is already listed.                                          *)
C1_OneTaskPerSocket ==
  /\ \A t \in task_list_, u \in task_list_ : t.sock = u.sock => t = u
  /\ Cardinality(task_list_) <= MaxSock

C1_Witness ==
  /\ last.op = "ares_sockstate_cb" /\ last.hit /\ (last.read \/ last.write)
  /\ \E t \in task_list_ : t.sock = last.sock

(* C2: when a socket-notify call has returned, also one in which creating  *)
(* the task failed, the IdleTimer runs iff the registry is nonempty.       *)
C2_TimerIffRegistryNonempty ==
  (last.op = "ares_sockstate_cb" /\ Running)
     => (TimerRunning <=> task_list_ # {})

(* C3: when the engine invokes the completion callback of a query whose    *)
(* QueryWrap was destroyed before, the callback touches no wrap, schedules *)
(* no delivery, leaves the in-flight counter and the last-query-ok flag    *)
(* as they are and frees the token cell.                                   *)
C3_CallbackAfterDestroyIsNoop ==
  [][ \A q \in Queries :
        (wrap[q] = "destroyed" /\ q \in engine_queries
                               /\ q \notin engine_queries')
          => /\ wrap' = wrap
             /\ response_data_' = response_data_
             /\ immediates' = immediates
             /\ events' = events
             /\ active_query_count_' = active_query_count_
             /\ query_last_ok_' = query_last_ok_
             /\ cell[q] = "null" /\ cell'[q] = "freed"
             /\ cell_frees'[q] = cell_frees[q] + 1 ]_vars

C3_Witness ==
  /\ last.op = "Callback"
  /\ wrap[last.q] = "destroyed"
  /\ cell[last.q] = "freed"

(* C4: for every query whose token was handed to the engine, in both       *)
(* orders of destructor and completion callback, the token cell is freed   *)
(* exactly once (when the callback consumes it) and never written through  *)
(* after that: once the callback has consumed the token of a live wrap,    *)
(* the wrap's back-reference is null.                                      *)
C4_TokenFreedOnce ==
  \A q \in Queries :
    /\ cell_frees[q] <= 1
    /\ ~cell_uaf[q]
    /\ (cell[q] = "freed") <=> (cell_frees[q] = 1)
    /\ (cell[q] # "unalloc" /\ q \notin engine_queries) => cell[q] = "freed"
    /\ (cell[q] # "unalloc" /\ q \in engine_queries) => cell[q] # "freed"
    /\ (cell[q] = "freed" /\ wrap[q] \in {"captured", "released"})
          => ~callback_ptr_[q]

C4_Witness ==
  \E q1 \in Queries, q2 \in Queries :
    /\ wrap[q1] = "released" /\ cell_frees[q1] = 1
    /\ wrap[q2] = "destroyed" /\ cell_frees[q2] = 1

(* C5: the in-flight counter is incremented once and decremented once per  *)
(* dispatched query on the completed, cancelled and rejected paths, is     *)
(* never negative, and is 0 once every dispatched query has completed.     *)
C5_CounterPaired ==
  LET inc(q) == Count(events[q], "inc")
      dec(q) == Count(events[q], "dec")
  IN
  /\ active_query_count_ >= 0
  /\ crashed # "CHECK_GE(active_query_count_, 0)"
  /\ \A q \in Queries : inc(q) <= 1 /\ dec(q) <= inc(q)
  /\ \A q \in Queries : wrap[q] \in {"rejected", "captured", "released"}
                           => (inc(q) = 1 /\ dec(q) = 1)
  /\ active_query_count_ =
       Cardinality({q \in Queries : inc(q) = 1 /\ dec(q) = 0})
  /\ (\A q \in Queries : wrap[q] \in {"none", "rejected", "captured",
                                      "released"})
        => active_query_count_ = 0

C5_Witness ==
  \E q1 \in Queries, q2 \in Queries :
    /\ wrap[q1] = "rejected"
    /\ wrap[q2] = "released"
    /\ last.op = "AfterResponse" /\ last.q = q2 /\ last.ret = ARES_ECANCELLED
    /\ active_query_count_ = 0

C7_SetServersPending ==
  [][ (last'.op = "SetServers" /\ active_query_count_ > 0)
        => /\ last'.ret = DNS_ESETSRVPENDING
           /\ servers' = servers
           /\ is_servers_default_' = is_servers_default_ ]_vars

C7_Witness ==
  /\ last.op = "SetServers" /\ last.ret = DNS_ESETSRVPENDING
  /\ active_query_count_ > 0

C9_UntrackedCloseIsFatal ==
  [][ ( /\ last'.op = "ares_sockstate_cb"
        /\ ~last'.read /\ ~last'.write
        /\ \A t \in task_list_ : t.sock # last'.sock )
        => /\ crashed' = "CHECK(task)"
           /\ task_list_' = task_list_
           /\ poll_watcher' = poll_watcher
           /\ timerVars' = timerVars ]_vars

C9_Witness ==
  /\ last.op = "ares_sockstate_cb" /\ ~last.read /\ ~last.write
  /\ \A t \in task_list_ : t.sock # last.sock
  /\ crashed = "CHECK(task)"

(* C10: after uv_poll_init_socket has failed for a socket, nothing that    *)
(* follows (timer firings, the close notification for that socket) makes   *)
(* the bridge abort the process.                                           *)
C10_PollInitFailureTolerated ==
  poll_init_failed => crashed \notin BridgeChecks

(* Every captured wrap has exactly one delivery queued, no other wrap has. *)
DeliveryQueued ==
  \A q \in Queries :
    Count(immediates, q) = (IF wrap[q] = "captured" THEN 1 ELSE 0)

(* C11: Cancel makes the engine call back every pending query with         *)
(* ARES_ECANCELLED through Callback and the token (the cell is freed, the  *)
(* status captured, one delivery queued, the counter decremented); when    *)
(* ares_cancel returns no query is pending and the counter is 0; the       *)
(* delivery of such a query hands ARES_ECANCELLED to the completion hook   *)
(* and happens once.                                                       *)
C11_CancelDeliversCancelled ==
  [][ /\ \A q \in Queries :
           ( /\ pc = "ares_cancel" /\ wrap[q] = "pending"
             /\ q \in engine_queries /\ q \notin engine_queries' )
             => /\ wrap'[q] = "captured"
                /\ response_data_'[q].status = ARES_ECANCELLED
                /\ immediates' = Append(immediates, q)
                /\ cell[q] = "wrap" /\ cell'[q] = "freed"
                /\ active_query_count_' = active_query_count_ - 1
      /\ (pc = "ares_cancel" /\ pc' = "loop")
             => /\ active_query_count_' = 0
                /\ \A q \in Queries : wrap'[q] # "pending"
      /\ \A q \in Queries :
           ( /\ wrap[q] = "captured" /\ wrap'[q] # "captured"
             /\ response_data_[q].status = ARES_ECANCELLED )
             => /\ wrap'[q] = "released"
                /\ last'.op = "AfterResponse" /\ last'.q = q
                /\ last'.ret = ARES_ECANCELLED
                /\ events'[q] = events[q] \o <<"hook", "release">>
      /\ DeliveryQueued' ]_vars

C11_Witness ==
  /\ last.op = "Cancel:return"
  /\ active_query_count_ = 0
  /\ \A q \in Queries : /\ wrap[q] = "captured"
                         /\ response_data_[q].status = ARES_ECANCELLED
  /\ Len(immediates) = MaxQueries

(* C12: a query whose completion callback found a live wrap gets exactly   *)
(* one invocation of the completion hook, with an error code or a decoded  *)
(* value; no wrap is released without the hook having been called.         *)
C12_HookExactlyOnce ==
  \A q \in Queries :
    /\ Count(events[q], "hook") <= 1
    /\ (wrap[q] = "released") => Count(events[q], "hook") = 1
    /\ (last.op = "AfterResponse") => last.ret # RET_NONE

(* C13: the completion hook is not invoked inside the engine's completion  *)
(* callback.  A callback that finds a live wrap stores the response and    *)
(* queues one delivery, also when it runs inside the dispatching engine    *)
(* call; the hook is invoked only by a step of the loop, taken while no    *)
(* engine call is on the stack, that runs the queued delivery.             *)
C13_HookNeverInsideCallback ==
  [][ \A q \in Queries :
        /\ ( wrap[q] = "pending" /\ q \in engine_queries
                                 /\ q \notin engine_queries' )
              => /\ InEngine
                 /\ wrap'[q] = "captured"
                 /\ response_data_'[q] # NoResponse
                 /\ immediates' = Append(immediates, q)
                 /\ Count(events'[q], "hook") = 0
        /\ Count(events'[q], "hook") > Count(events[q], "hook")
              => /\ pc = "loop" /\ pc' = "loop"
                 /\ wrap[q] = "captured"
                 /\ immediates # <<>> /\ Head(immediates) = q
                 /\ last'.op = "AfterResponse" ]_vars

C13_Witness ==
  /\ last.op = "Callback" /\ last.hit
  /\ pc = "ares_send" /\ cur_q = last.q
  /\ wrap[last.q] = "captured"
  /\ events[last.q] = <<"inc", "capture", "schedule", "last_ok", "dec">>

(* C14: in a dispatch that calls EnsureServers with is_servers_default_    *)
(* true and query_last_ok_ false: when the server list is the one entry    *)
(* 127.0.0.1 (IPv4, ports 0) the engine is destroyed (ares_destroy is      *)
(* entered) and is_servers_default_ stays true; when the list has another  *)
(* single entry or more than one entry, is_servers_default_ becomes false  *)
(* and the engine is kept and asked to start the query.  The destroyed     *)
(* engine is then replaced by a new one, is_servers_default_ still true.   *)
C14_FallbackRecreates ==
  [][ /\ ( /\ last'.op = "Query:Send" /\ last'.hit
            /\ is_servers_default_ /\ ~query_last_ok_
            /\ servers # <<>> )
          => IF servers = <<Server(AF_INET, "127.0.0.1", 0)>>
               THEN /\ pc' = "ares_destroy"
                    /\ handle_destroys' = handle_destroys + 1
                    /\ is_servers_default_'
               ELSE /\ pc' = "ares_send"
                    /\ handle_destroys' = handle_destroys
                    /\ channel_' = channel_ /\ servers' = servers
                    /\ ~is_servers_default_'
      /\ (last'.op = "EnsureServers:Setup" /\ last'.hit)
          => /\ handle_destroys = 1 /\ handle_destroys' = 0
             /\ channel_' = "live"
             /\ is_servers_default_ /\ is_servers_default_' ]_vars

C14_Witness ==
  /\ last.op = "EnsureServers:Setup" /\ last.hit
  /\ channel_ = "live" /\ handle_destroys = 0
  /\ is_servers_default_

(* The other case of C14 is reached as well. *)
C14_WitnessNotDefault ==
  /\ last.op = "Query:Send" /\ last.ret = "not_default"
  /\ Len(servers) > 1
  /\ ~is_servers_default_

(* C15: a dispatch that calls EnsureServers with is_servers_default_ true  *)
(* and query_last_ok_ false while the engine's server list is empty sets   *)
(* is_servers_default_ to false.                                           *)
C15_EmptyListNotDefault ==
  [][ ( /\ last'.op = "Query:Send" /\ last'.hit
        /\ is_servers_default_ /\ ~query_last_ok_
        /\ servers = <<>> )
        => ~is_servers_default_' ]_vars

(* C16: a dispatch that calls EnsureServers while query_last_ok_ is true   *)
(* or is_servers_default_ is false does not depend on the server list,     *)
(* keeps the engine and asks it to start the query, and leaves             *)
(* is_servers_default_, query_last_ok_, the registry and the timer as they *)
(* are.                                                                    *)
C16_EnsureServersSkips ==
  [][ ( /\ last'.op = "Query:Send" /\ last'.hit
        /\ (query_last_ok_ \/ ~is_servers_default_) )
        => /\ last'.ret = "skip"
           /\ pc' = "ares_send"
           /\ handle_destroys' = handle_destroys
           /\ channel_' = channel_ /\ servers' = servers
           /\ is_servers_default_' = is_servers_default_
           /\ query_last_ok_' = query_last_ok_
           /\ task_list_' = task_list_
           /\ poll_watcher' = poll_watcher
           /\ timerVars' = timerVars ]_vars

C16_Witness ==
  /\ last.op = "Query:Send" /\ last.hit /\ last.ret = "skip"
  /\ ~query_last_ok_ /\ ~is_servers_default_
  /\ task_list_ # {} /\ TimerRunning
  /\ pc = "ares_send"

C16_WitnessLastOk ==
  /\ last.op = "Query:Send" /\ last.hit /\ last.ret = "skip"
  /\ query_last_ok_ /\ is_servers_default_ /\ IsFallback(servers)
  /\ pc = "ares_send"

(* C17: every dispatch that asks the engine to start a query, of whatever  *)
(* kind, has called EnsureServers just before and taken the branch         *)
(* EnsureServers takes in that state.                                      *)
C17_EnsureServersBeforeEveryQuery ==
  [][ (last'.op = "Query:Send")
        => /\ last'.hit
           /\ last'.ret = EnsureServers ]_vars

(* C18 as stated: when EnsureServers goes on to destroy the engine, the    *)
(* registry is empty, the timer is stopped and no dispatched query awaits  *)
(* its completion callback.                                                *)
C18_QuiescentAtDestroy ==
  (last.op = "Query:Send" /\ last.ret = "recreate")
     => /\ task_list_ = {}
        /\ ~TimerRunning
        /\ engine_queries = {}

(* C18 amended: EnsureServers may destroy the engine while sockets are     *)
(* tracked, the timer runs and queries are pending; ares_destroy completes *)
(* those queries with ARES_EDESTRUCTION and closes the sockets, so that    *)
(* when Setup creates the new engine the registry is empty, the timer is   *)
(* closed, no dispatched query awaits its completion callback and the      *)
(* counter counts the dispatching query only.                              *)
C18_QuiescentAtSetup ==
  [][ (last'.op = "EnsureServers:Setup")
        => /\ task_list_ = {} /\ task_list_' = {}
           /\ engine_queries = {}
           /\ \A q \in Queries : q # cur_q => wrap[q] # "pending"
           /\ \A q \in Queries :
                 (wrap[q] = "captured" /\ Count(events[q], "dec") = 1)
                   \/ wrap[q] \in Deleted \/ q = cur_q
           /\ active_query_count_ = 1
           /\ timer_handle_' = NULL /\ ~timer_active' ]_vars

C18_Witness ==
  /\ last.op = "EnsureServers:Setup"
  /\ \E q \in Queries : /\ wrap[q] = "captured"
                         /\ response_data_[q].status = ARES_EDESTRUCTION
  /\ \E i \in TaskIds : poll_watcher[i].state = "closing"
  /\ task_list_ = {} /\ timer_handle_ = NULL

(* C19: no engine handle of the channel is destroyed twice, an engine is   *)
(* replaced only after it was destroyed, and once the channel is           *)
(* destructed the engine it had is destroyed.                              *)
C19_HandleDestroyedOnce ==
  /\ handle_destroys <= 1
  /\ (channel_ = "live" /\ pc \notin {"ares_destroy", "~ChannelWrap"}
         /\ ~destructed) => handle_destroys = 0
  /\ destructed => (channel_ = "null" \/ handle_destroys = 1)

(* C20: the library's reference count never drops below the number of      *)
(* other channels that hold the library, and once the channel is           *)
(* destructed it has given back exactly what it took.                      *)
C20_LibraryCountBalanced ==
  /\ ares_initialized >= OtherChannels
  /\ destructed => ares_initialized = OtherChannels

(* The threads that are inside ares_library_init or ares_library_cleanup. *)
InLibraryCall ==
  {t \in Threads : thread[t].pc \in {"ares_library_init",
                                      "Setup:ares_library_cleanup",
                                      "~ChannelWrap:ares_library_cleanup"}}

(* C21: a thread that is inside ares_library_init or ares_library_cleanup  *)
(* holds ares_library_mutex, so no two threads are inside such a call at   *)
(* the same time.                                                          *)
C21_LibraryCallsUnderMutex ==
  /\ \A t \in InLibraryCall : ares_library_mutex = t
  /\ Cardinality(InLibraryCall) <= 1

(* A thread is inside the cleanup of its destructor while another thread   *)
(* is about to take the lock for the initialization.                       *)
C21_Witness ==
  \E t, u \in Threads :
    /\ thread[t].pc = "~ChannelWrap:ares_library_cleanup"
    /\ thread[u].pc = "Setup" /\ ~thread[u].library_inited_

(* The first decode pass of passes that fails with a status other than     *)
(* the empty-result status, or 0 when there is none.                       *)
FirstFailure(passes) ==
  LET bad == {i \in DOMAIN passes :
                passes[i] \notin {ARES_SUCCESS, "ARES_ENODATA"}}
  IN IF bad = {} THEN 0 ELSE CHOOSE i \in bad : \A j \in bad : i <= j

(* C22: when the decode of a resolve-any answer has run, the hook is       *)
(* called with the status of the first pass, of whatever record type,      *)
(* that failed with a status other than ENODATA, and with the decoded      *)
(* records when there is no such pass.                                     *)
C22_AnyPassFailureDelivered ==
  (last.op = "AfterResponse" /\ last.passes # <<>>)
    => last.ret = (IF FirstFailure(last.passes) = 0
                     THEN "value"
                     ELSE last.passes[FirstFailure(last.passes)])

(* C23: a SetLocalAddress whose first address is valid and whose second    *)
(* address is malformed or of the family of the first throws and leaves    *)
(* the engine's local addresses as they were before the call.              *)
C23_LocalAddressRejectedUnchanged ==
  [][ \A ip0 \in LocalInputs, ip1 \in LocalInputs :
        ( /\ SetLocalAddress(ip0, ip1)
          /\ AddrType(ip0) # 0
          /\ AddrType(ip1) \in {0, AddrType(ip0)} )
        => /\ last'.ret = ERR_INVALID_ARG_VALUE
           /\ local_ip' = local_ip ]_vars

(* An entry of the array has an address string that is not an address of   *)
(* the entry's family.                                                     *)
Malformed(arr) ==
  \E i \in DOMAIN arr :
    \/ arr[i].fam = 4 /\ arr[i].ip \notin {"127.0.0.1", "8.8.8.8"}
    \/ arr[i].fam = 6 /\ arr[i].ip \notin {"::1"}

(* C24: with no query in flight, SetServers of a list that has a malformed *)
(* entry, wherever it is in the list, returns ARES_EBADSTR and leaves the  *)
(* engine's server list and is_servers_default_ as they were.              *)
C24_MalformedServerRejected ==
  [][ \A arr \in ServerInputs, ok \in BOOLEAN :
        ( /\ SetServers(arr, ok)
          /\ active_query_count_ = 0
          /\ Malformed(arr) )
        => /\ last'.ret = ARES_EBADSTR
           /\ servers' = servers
           /\ is_servers_default_' = is_servers_default_ ]_vars

(* A list with a malformed entry was rejected on a channel that has no     *)
(* query in flight and whose servers are the default ones.                 *)
C24_Witness ==
  /\ last.op = "SetServers" /\ last.ret = ARES_EBADSTR
  /\ active_query_count_ = 0
  /\ is_servers_default_

(* C25: the dispatch of a reverse lookup whose string is not an address    *)
(* returns a nonzero status, makes no token and no engine call, leaves     *)
(* active_query_count_ at its value before the dispatch and deletes the    *)
(* wrap at once; the hook of a rejected wrap is never invoked and no       *)
(* delivery for it is queued; an accepted dispatch returns 0.              *)
C25_RejectedDispatch ==
  [][ /\ \A q \in Queries :
           QueryStart(q, "reverse", FALSE)
             => /\ last'.op = "Query" /\ last'.ret \notin {RET_ZERO, RET_NONE}
                /\ cell'[q] = "unalloc" /\ ~callback_ptr_'[q]
                /\ pc' = "loop" /\ engine_queries' = engine_queries
                /\ active_query_count_' = active_query_count_
                /\ wrap'[q] = "rejected"
      /\ \A q \in Queries :
           wrap'[q] = "rejected"
             => /\ Count(events'[q], "hook") = 0
                /\ q \notin engine_queries'
                /\ \A i \in DOMAIN immediates' : immediates'[i] # q
      /\ (pc = "ares_send" /\ pc' = "loop" /\ crashed' = "no")
             => last'.op = "Query" /\ last'.ret = RET_ZERO ]_vars

(* A reverse lookup was rejected while another query was in flight. *)
C25_Witness ==
  /\ last.op = "Query" /\ last.ret = UV_EINVAL
  /\ wrap[last.q] = "rejected"
  /\ active_query_count_ > 0

(* C26: the delivery step releases the wrap together with its captured     *)
(* response; a QueryWrap that no longer exists holds no copy of an answer; *)
(* the channel is not destructed while a QueryWrap exists.                 *)
C26_ReleasedWithResponse ==
  /\ last.op = "AfterResponse"
       => /\ wrap[last.q] = "released"
          /\ response_data_[last.q] = NoResponse
  /\ \A q \in Queries :
       wrap[q] \in Deleted \cup {"destroyed"}
         => response_data_[q] = NoResponse
  /\ (destructed \/ pc = "~ChannelWrap")
       => \A q \in Queries : wrap[q] \in Deleted \cup {"destroyed"}

(* The channel was destructed after a query whose answer was captured was  *)
(* delivered and released.                                                 *)
C26_Witness ==
  /\ destructed
  /\ \E q \in Queries :
       /\ wrap[q] = "released"
       /\ Count(events[q], "hook") = 1

(* C27: after a completion callback that found a live wrap,                *)
(* query_last_ok_ is true exactly when the status is not                   *)
(* ARES_ECONNREFUSED, whatever other status it is.                         *)
C27_LastOkIffNotRefused ==
  (last.op = "Callback" /\ last.hit)
    => query_last_ok_ = (last.ret # ARES_ECONNREFUSED)

(* The engine was destroyed after a refused query while another query was  *)
(* pending: its callback reports ARES_EDESTRUCTION and sets the flag.      *)
C27_Witness ==
  /\ last.op = "Callback" /\ last.hit
  /\ last.ret = ARES_EDESTRUCTION
  /\ query_last_ok_

(* C28: the response a wrap has captured holds one variant: with a status  *)
(* other than success neither a buffer nor a host record; on success of a  *)
(* raw-buffer query the buffer copy and no host record; on success of a    *)
(* host-record query the host record copy and no buffer.                   *)
C28_OneVariantCaptured ==
  \A q \in Queries :
    wrap[q] = "captured" =>
      LET r == response_data_[q] IN
      /\ r.status # RET_NONE
      /\ r.is_host = (kind[q] = "reverse")
      /\ r.status # ARES_SUCCESS => ~r.has_buf /\ ~r.has_host
      /\ (r.status = ARES_SUCCESS /\ ~r.is_host) => r.has_buf /\ ~r.has_host
      /\ (r.status = ARES_SUCCESS /\ r.is_host) => r.has_host /\ ~r.has_buf

(* A reverse lookup has captured a host record while a plain query has     *)
(* captured a failure.                                                     *)
C28_Witness ==
  \E q, p \in Queries :
    /\ wrap[q] = "captured" /\ kind[q] = "reverse"
    /\ response_data_[q].status = ARES_SUCCESS /\ response_data_[q].has_host
    /\ wrap[p] = "captured" /\ kind[p] = "query"
    /\ response_data_[p].status = ARES_ETIMEOUT

(* C29: what the copy says, from the return of Callback until it is        *)
(* delivered, is what the engine's answer said when Callback ran, whatever *)
(* the engine has since done to its own cells; the copy shares no cell     *)
(* with the engine; the hook is handed the value of that time.             *)
C29_DeliveredIsAnswerAtCallback ==
  /\ mem.phase \in {"captured", "delivered"} =>
       IF mem.is_host
         THEN /\ HostValue(mem.heap, mem.copy) = mem.at_callback
              /\ mem.copy.h_name > mem.engine_top
              /\ \A i \in DOMAIN mem.copy.h_aliases :
                   mem.copy.h_aliases[i] > mem.engine_top
              /\ \A i \in DOMAIN mem.copy.h_addr_list :
                   mem.copy.h_addr_list[i] > mem.engine_top
         ELSE /\ BufValue(mem.heap, mem.copy) = mem.at_callback
              /\ mem.copy.buf > mem.engine_top
  /\ mem.phase \in {"delivered", "released"} =>
       mem.delivered = (IF mem.is_host THEN mem.at_callback.aliases
                                       ELSE mem.at_callback)

(* A host record with the most aliases was delivered after the engine had  *)
(* freed or reused every cell of its answer.                               *)
C29_Witness ==
  /\ mem.phase = "delivered" /\ mem.is_host
  /\ Len(mem.copy.h_aliases) = MaxAliases
  /\ \A a \in 1..mem.engine_top : mem.heap[a] \in {FreedCell, Cell(<<>>)}

(* C30: a close notification for a tracked socket takes the task out of    *)
(* the registry in that call and leaves it allocated, its handle closing;  *)
(* a task is freed only by ares_poll_close_cb, run by the loop for a       *)
(* handle that is closing, which ends the closing.                         *)
C30_TaskFreedByCloseCallback ==
  [][ /\ (last'.op = "ares_sockstate_cb" /\ ~last'.read /\ ~last'.write
            /\ last'.hit)
         => \E t \in task_list_ :
              /\ t.sock = last'.sock
              /\ t \notin task_list_'
              /\ poll_watcher[t.id].state = "active"
              /\ poll_watcher'[t.id].state = "closing"
      /\ \A id \in TaskIds :
           (poll_watcher[id].state # "free" /\ poll_watcher'[id].state = "free")
             => /\ poll_watcher[id].state = "closing"
                /\ last'.op = "ares_poll_close_cb"
                /\ pc = "loop"
                /\ \A t \in task_list_ : t.id # id
      /\ \A id \in TaskIds :
           (poll_watcher[id].state = "closing"
              /\ poll_watcher'[id].state # "closing")
             => poll_watcher'[id].state = "free" ]_vars

(* A close notification has left a task closing while another socket is    *)
(* still tracked.                                                          *)
C30_Witness ==
  /\ last.op = "ares_sockstate_cb" /\ ~last.read /\ ~last.write /\ last.hit
  /\ \E id \in TaskIds : poll_watcher[id].state = "closing"
  /\ task_list_ # {}

(* C31: after a socket notification with read or write set, the poll       *)
(* handle of the socket's task is armed for exactly the flags of that      *)
(* call, whatever it was armed for before.                                 *)
C31_InterestReplaced ==
  (last.op = "ares_sockstate_cb" /\ (last.read \/ last.write))
    => /\ \A t \in task_list_ :
            t.sock = last.sock
              => poll_watcher[t.id] =
                   [state |-> "active", read |-> last.read,
                    write |-> last.write]
       /\ last.hit => \E t \in task_list_ : t.sock = last.sock

(* A socket that was already tracked has been re-armed for write only. *)
C31_Witness ==
  /\ last.op = "ares_sockstate_cb" /\ last.hit
  /\ ~last.read /\ last.write
  /\ \E t \in task_list_ :
       /\ t.sock = last.sock
       /\ ~poll_watcher[t.id].read /\ poll_watcher[t.id].write

C34_AnyRecordsInPassOrder ==
  LET order == <<"A", "AAAA", "MX", "NS", "TXT", "SRV", "PTR", "NAPTR",
                 "SOA", "CAA">>
      pos(r) == CHOOSE k \in 1..Len(order) : order[k] = r
      recs == last.records
  IN (last.op = "AfterResponse" /\ last.passes # <<>> /\ last.ret = "value")
       => /\ \A i \in 1..Len(recs) : \E k \in 1..Len(order) : recs[i] = order[k]
          /\ \A i \in 1..Len(recs), j \in 1..Len(recs) :
                i < j => pos(recs[i]) < pos(recs[j])
          /\ \A k \in 1..Len(order) :
                (last.passes[k] = ARES_SUCCESS)
                  <=> \E i \in 1..Len(recs) : recs[i] = order[k]

(* A decode whose every pass found records delivered ten of them. *)
C34_Witness ==
  /\ last.op = "AfterResponse" /\ last.ret = "value"
  /\ Len(last.records) = 10
  /\ last.records[1] = "A" /\ last.records[10] = "CAA"

(* C35: whenever AresTimeout fires, the task registry is nonempty: no      *)
(* sequence of socket notifications, poll events, engine recreations and   *)
(* timer ticks fires the timer on an empty registry.                       *)
C35_TimerFiresOnNonemptyRegistry ==
  last.op = "AresTimeout" => last.hit

(* C36: while the registry holds a task, or a poll handle of a task can    *)
(* still deliver events, the channel holds a timer handle; a poll          *)
(* readiness callback therefore always finds the timer handle non-null.    *)
C36_TimerHandleWhileTasks ==
  /\ task_list_ # {} => timer_handle_ # NULL
  /\ \A t \in task_list_ :
       poll_watcher[t.id].state = "active" => timer_handle_ # NULL
  /\ last.op = "ares_poll_cb" => last.hit
  /\ crashed # "uv_timer_again(nullptr)"

(* A poll callback entered the engine after a query of the channel was     *)
(* refused.                                                                *)
C36_Witness ==
  /\ last.op = "ares_poll_cb" /\ last.hit
  /\ pc = "ares_process"
  /\ task_list_ # {} /\ timer_handle_ # NULL
  /\ ~query_last_ok_

(* C37: when the engine has called the completion callback of a query      *)
(* inside the dispatching call, the dispatch returns 0; the in-flight      *)
(* counter is back at its value before the dispatch (one increment and one *)
(* decrement for the query, the counter equal to the number of pending     *)
(* queries); the wrap is not deleted by the dispatcher and has one         *)
(* delivery queued and none run; the delivery then runs in a later loop    *)
(* step, once.                                                             *)
C37_SynchronousCallback ==
  /\ [][ (QueryReturn /\ wrap[cur_q] = "captured")
          => /\ last'.ret = RET_ZERO
             /\ wrap'[cur_q] = "captured"
             /\ Count(events'[cur_q], "inc") = 1
             /\ Count(events'[cur_q], "dec") = 1
             /\ active_query_count_' =
                  Cardinality({p \in Queries : wrap'[p] = "pending"})
             /\ Count(immediates', cur_q) = 1
             /\ Count(events'[cur_q], "release") = 0 ]_vars
  /\ [](\A q \in Queries : Count(events[q], "release") <= 1)
  /\ \A q \in Queries :
       (pc = "ares_send" /\ cur_q = q /\ wrap[q] = "captured")
         ~> (last.op = "AfterResponse" /\ last.q = q /\ pc = "loop"
             /\ wrap[q] = "released"
             /\ Count(events[q], "release") = 1)

(* Query returned 0 for a query whose callback ran inside the dispatch. *)
C37_Witness ==
  /\ last.op = "Query" /\ last.ret = RET_ZERO
  /\ wrap[last.q] = "captured"
  /\ events[last.q] = <<"inc", "capture", "schedule", "last_ok", "dec">>
  /\ Count(immediates, last.q) = 1

(* C38: SetServers sets is_servers_default_ to false exactly when it is    *)
(* given a nonempty list and returns success; a call that fails and a call *)
(* with an empty list leave the flag as it was.  The flag never becomes    *)
(* true again, and while it is false EnsureServers skips its check: no     *)
(* query recreates the engine.                                             *)
C38_SetServersClearsDefault ==
  /\ [][ \A arr \in ServerInputs, ok \in BOOLEAN :
          SetServers(arr, ok)
            => IF Len(arr) > 0 /\ last'.ret = ARES_SUCCESS
                 THEN ~is_servers_default_'
                 ELSE is_servers_default_' = is_servers_default_ ]_vars
  /\ [][ ~is_servers_default_
          => /\ ~is_servers_default_'
             /\ (last'.op = "Query:Send" /\ last'.hit) => last'.ret = "skip"
             /\ pc' # "ares_destroy"
             /\ handle_destroys' = handle_destroys ]_vars

(* A query after a refused one skipped the check because SetServers had    *)
(* installed a server.                                                     *)
C38_Witness ==
  /\ last.op = "Query:Send" /\ last.hit /\ last.ret = "skip"
  /\ ~query_last_ok_ /\ ~is_servers_default_
  /\ servers = ParsedServers(<<Elm(4, "8.8.8.8", 53)>>)

(* The entries of a lookup's list that carry an address the completion can *)
(* return: IPv4 or IPv6, and formatted by uv_inet_ntop.                    *)
UsableEntries ==
  { i \in 1..Len(req_wrap.res) :
      /\ req_wrap.res[i].ai_family \in {AF_INET, AF_INET6}
      /\ req_wrap.res[i].ntop_ok }

(* C39: a successful address lookup returns every usable address once;     *)
(* with verbatim false every IPv4 address precedes every IPv6 address and  *)
(* each family keeps the resolver's order; with verbatim true the          *)
(* resolver's order is kept; with no usable address the status handed to   *)
(* the caller is the no-data error.                                        *)
C39_AddrInfoOrder ==
  LET out == req_wrap.argv1 IN
  (req_wrap.phase = "done" /\ ~req_wrap.argv1_null)
    => /\ Len(out) = Cardinality(UsableEntries)
       /\ \A i \in UsableEntries :
            \E k \in 1..Len(out) :
              /\ out[k].text = i
              /\ out[k].family = req_wrap.res[i].ai_family
       /\ \A k \in 1..Len(out), l \in 1..Len(out) :
            k < l =>
              IF req_wrap.verbatim
                THEN out[k].text < out[l].text
                ELSE /\ out[k].family = AF_INET6 => out[l].family = AF_INET6
                     /\ out[k].family = out[l].family
                          => out[k].text < out[l].text
       /\ req_wrap.argv0 =
            (IF UsableEntries = {} THEN "UV_EAI_NODATA" ELSE "0")

(* The resolver listed an IPv6 address before an IPv4 address and the      *)
(* lookup, not verbatim, returned them the other way round.                *)
C39_Witness ==
  /\ req_wrap.phase = "done" /\ ~req_wrap.verbatim
  /\ Len(req_wrap.res) >= 2
  /\ req_wrap.res[1].ai_family = AF_INET6 /\ req_wrap.res[1].ntop_ok
  /\ req_wrap.res[2].ai_family = AF_INET /\ req_wrap.res[2].ntop_ok
  /\ req_wrap.argv0 = "0"
  /\ Len(req_wrap.argv1) >= 2
  /\ req_wrap.argv1[1].text = 2 /\ req_wrap.argv1[2].text = 1

(* C40: a QueryWrap makes at most one token: whenever MakeCallbackPointer  *)
(* runs, the wrap is new or holds no back-reference (CHECK_NULL passes),   *)
(* and a cell comes to point at a wrap in no other step; the               *)
(* back-reference of a live wrap is non-null only while its cell exists    *)
(* and points back at the wrap.                                            *)
C40_OneTokenPerLifecycle ==
  /\ [](\A q \in Queries :
         (wrap[q] \in {"created", "pending", "captured"} /\ callback_ptr_[q])
           => cell[q] = "wrap")
  /\ [][ \A q \in Queries :
          (wrap'[q] = "pending" /\ wrap[q] # "pending")
            => /\ wrap[q] \in Deleted \cup {"created"}
               /\ wrap[q] = "created" => ~callback_ptr_[q] /\ cell[q] = "unalloc"
               /\ callback_ptr_'[q] /\ cell'[q] = "wrap" ]_vars
  /\ [][ \A q \in Queries :
          (cell'[q] = "wrap" /\ cell[q] # "wrap")
            => (wrap'[q] = "pending" /\ wrap[q] # "pending") ]_vars

(* The wrap of a query that recreated the engine made its token after the  *)
(* recreation.                                                             *)
C40_Witness ==
  /\ last.op = "EnsureServers:Setup" /\ last.hit
  /\ wrap[last.q] = "pending"
  /\ callback_ptr_[last.q] /\ cell[last.q] = "wrap"

=============================================================================
